---- MODULE Spec2Model ----
(***************************************************************************)
(* Model of pykef_w1.connection.Connection (src/src/pykef_w1/connection.py) *)
(* running on one asyncio event loop.                                       *)
(*                                                                          *)
(* A step of the model is what one asyncio task executes between two        *)
(* suspension points (an await that really yields to the event loop):       *)
(* acquiring a free asyncio.Lock, releasing it and awaiting a coroutine     *)
(* that does not itself suspend do not yield, so they belong to the same    *)
(* step as the code before them.                                            *)
(*                                                                          *)
(* Agents: caller task t is agent t (t > 0); idle-timer task k is agent -k. *)
(* Value 0 stands for None (no socket, no task, lock free).                 *)
(*                                                                          *)
(* The frame codec of pykef_w1.protocol (src/src/pykef_w1/protocol.py) is   *)
(* modelled as operators on byte sequences and exercised by its own         *)
(* specifications (EncodeSpec, CodecSpec).                                  *)
(***************************************************************************)
EXTENDS Integers, Sequences, FiniteSets, TLC

\* ---------------------------------------------------------------- bounds
NumTasks == 2          \* caller tasks sharing the Connection
MaxOps == 3            \* public operations invoked in one behaviour
MaxRetries == 4        \* RetrySpec: ConnectionConfig.max_retries ranges over 1..MaxRetries
IdleOps == 2           \* FairSpec: public operations invoked in one behaviour
MaxFrames == 2         \* CodecSpec: frames in one received buffer
MaxChars == 2          \* EncodeSpec: length of the texts built from mixed characters
MaxRepeat == 128       \* EncodeSpec: length of the texts that repeat one character

\* ------------------------------------------------------ derived constants
Tasks == 1..NumTasks
MaxTimers == 2 * MaxOps        \* an operation arms the timer at most twice
MaxSocks == MaxOps             \* an operation opens at most one socket
TimerIds == 1..MaxTimers
SockIds == 1..MaxSocks
RetryDelayMs == 500            \* ConnectionConfig.retry_delay = 0.5 s, in ms
DefaultMaxRetries == 3         \* ConnectionConfig.max_retries

VARIABLES
  max_retries,     \* ConnectionConfig.max_retries (immutable)
  faulted,         \* environment: the device has failed to accept or answer so far
  reader,          \* Connection._reader  (0 = None, else socket id)
  writer,          \* Connection._writer  (0 = None, else socket id)
  keepalive_task,  \* Connection._keepalive_task (0 = None, else timer id)
  lockOwner,       \* Connection._lock: agent holding (or handed) the lock, 0 = free
  waiters,         \* Connection._lock._waiters, FIFO of agents
  timers,          \* timer id -> position of that _keepalive_timeout task
  nTimers,         \* number of timer tasks created so far
  sock,            \* socket id -> "unopened" | "open" | "late" | "eof" | "closed"
  closedBy,        \* socket id -> agent that called writer.close() on it (0 = none)
  nSocks,          \* number of sockets opened so far
  pc,              \* caller task -> suspension point
  op,              \* caller task -> public operation in flight / last invoked
  attempt,         \* caller task -> loop variable `attempt` of connect()
  opens,           \* caller task -> open_connection calls made by its connect()
  waits,           \* caller task -> backoff sleeps (ms) made by its connect()
  last_err,        \* caller task -> local `last_err` of connect(): the error raised
                   \*   by attempt number last_err - 1 (0 = None)
  result,          \* caller task -> outcome of its last finished operation
  cause,           \* caller task -> __cause__ of the raised ConnectionError (as last_err)
  opsLeft,         \* operations that may still be invoked
  failed           \* sockets on which a send ended in a connection failure

\* the frame codec, applied to one call and one received buffer
VARIABLES
  call,            \* the Request constructor called and its arguments
  request,         \* the Request built by the call (or the ValueError raised)
  sent,            \* environment: the frames the device put on the wire
  tail,            \* environment: the bytes that follow them in the buffer
  data,            \* the buffer returned by reader.read()
  frames,          \* local `frames` of Response.parse
  response,        \* what Response.parse returned or raised
  outcome,         \* what the Speaker method that made the call returned or raised
  cpc              \* position in the exchange: call -> encoded -> received -> done
                   \*   -> returned

codecVars == <<call, request, sent, tail, data, frames, response, outcome, cpc>>

\* Response._parse_frames run step by step on the buffer `data`
VARIABLES
  idx,             \* local `i` of _parse_frames: the scan index
  starts           \* for each frame of `frames`, the index at which it was found

scanVars == <<idx, starts>>

\* the state records and the scaled parameters of models.py
VARIABLES
  model,           \* the record (or the setting and the value) to encode
  encoded,         \* the byte to_raw / encode returned
  decoded          \* what from_raw / decode made of that byte

modelVars == <<model, encoded, decoded>>

\* the Speaker facade used by several tasks on one device
VARIABLES
  device,          \* environment: command byte -> the byte the device stores
  fcall,           \* task -> the Speaker method it is running and its arguments
  fpc,             \* task -> position in that method
  current          \* task -> local `current`: the byte its read returned

facadeVars == <<device, fcall, fpc, current>>

vars == <<max_retries, faulted, reader, writer, keepalive_task, lockOwner,
          waiters, timers, nTimers, sock, closedBy, nSocks, pc, op, attempt,
          opens, waits, last_err, result, cause, opsLeft, failed, codecVars,
          scanVars, modelVars, facadeVars>>

\* The mutable state as one record, so that the sequential code of a step can
\* be written as a composition of state transformers.
Cur ==
  [reader |-> reader, writer |-> writer, keepalive_task |-> keepalive_task,
   lockOwner |-> lockOwner, waiters |-> waiters, timers |-> timers,
   nTimers |-> nTimers, sock |-> sock, closedBy |-> closedBy, nSocks |-> nSocks,
   pc |-> pc, op |-> op, attempt |-> attempt, opens |-> opens, waits |-> waits,
   faulted |-> faulted, last_err |-> last_err, result |-> result, cause |-> cause,
   opsLeft |-> opsLeft, failed |-> failed]

\* s is the state after the step
Assign(s) ==
  /\ reader' = s.reader
  /\ writer' = s.writer
  /\ keepalive_task' = s.keepalive_task
  /\ lockOwner' = s.lockOwner
  /\ waiters' = s.waiters
  /\ timers' = s.timers
  /\ nTimers' = s.nTimers
  /\ sock' = s.sock
  /\ closedBy' = s.closedBy
  /\ nSocks' = s.nSocks
  /\ pc' = s.pc
  /\ op' = s.op
  /\ attempt' = s.attempt
  /\ opens' = s.opens
  /\ waits' = s.waits
  /\ faulted' = s.faulted
  /\ last_err' = s.last_err
  /\ result' = s.result
  /\ cause' = s.cause
  /\ opsLeft' = s.opsLeft
  /\ failed' = s.failed
  /\ UNCHANGED max_retries
  /\ UNCHANGED <<codecVars, scanVars, modelVars, facadeVars>>

\* The step's result is computed once, then assigned.
Commit(s) == \E n \in {s} : Assign(n)

\* no codec call is under way
CodecUnused ==
  /\ call = [ctor |-> "none"]
  /\ request = [kind |-> "none"]
  /\ sent = <<>>
  /\ tail = <<>>
  /\ data = <<>>
  /\ frames = <<>>
  /\ response = [kind |-> "none"]
  /\ outcome = [kind |-> "none"]
  /\ cpc = "unused"

\* no scan is under way
ScanUnused ==
  /\ idx = 0
  /\ starts = <<>>

\* no record is being encoded
ModelsUnused ==
  /\ model = [cls |-> "none"]
  /\ encoded = 0
  /\ decoded = [cls |-> "none"]

\* no Speaker method is running
FacadeUnused ==
  /\ device = <<>>
  /\ fcall = <<>>
  /\ fpc = <<>>
  /\ current = <<>>

\* The state after Connection.__init__ (lines 23-28), for a configuration with
\* max_retries = r, when n operations may be invoked.
InitConnection(r, n) ==
  /\ max_retries = r
  /\ faulted = FALSE
  /\ reader = 0
  /\ writer = 0
  /\ keepalive_task = 0
  /\ lockOwner = 0
  /\ waiters = <<>>
  /\ timers = [k \in TimerIds |-> "unused"]
  /\ nTimers = 0
  /\ sock = [x \in SockIds |-> "unopened"]
  /\ closedBy = [x \in SockIds |-> 0]
  /\ nSocks = 0
  /\ pc = [t \in Tasks |-> "idle"]
  /\ op = [t \in Tasks |-> "none"]
  /\ attempt = [t \in Tasks |-> 0]
  /\ opens = [t \in Tasks |-> 0]
  /\ waits = [t \in Tasks |-> <<>>]
  /\ last_err = [t \in Tasks |-> 0]
  /\ result = [t \in Tasks |-> "none"]
  /\ cause = [t \in Tasks |-> 0]
  /\ opsLeft = n
  /\ failed = {}

InitWith(r, n) ==
  InitConnection(r, n) /\ CodecUnused /\ ScanUnused /\ ModelsUnused /\ FacadeUnused

\* the default configuration
Init == InitWith(DefaultMaxRetries, MaxOps)

\* ------------------------------------------------------------ asyncio.Lock
\* Lock.release(): the lock goes to the first waiter (FIFO); a task that tries
\* to acquire while a woken waiter has not run yet queues behind it.
Release(s) ==
  IF s.waiters = <<>>
  THEN [s EXCEPT !.lockOwner = 0]
  ELSE [s EXCEPT !.lockOwner = Head(s.waiters), !.waiters = Tail(s.waiters)]

\* Lock.acquire() fails with CancelledError for a waiter: it leaves the queue,
\* and a waiter that had already been handed the lock passes it on.
RemoveWaiter(s, a) ==
  IF s.lockOwner = a
  THEN Release(s)
  ELSE [s EXCEPT !.waiters = SelectSeq(@, LAMBDA x : x # a)]

\* ------------------------------------------------------------- idle timer
LiveTimer(st) == st \in {"new", "sleeping", "waiting", "closing"}

\* asyncio.Task.cancel() on timer task k.  A task that has not started never
\* runs its body; a started one gets CancelledError at its await and then runs
\* the code after the `with suppress(...)` block (TimerCancelled below).
TaskCancel(s, k) ==
  CASE s.timers[k] = "new"      -> [s EXCEPT !.timers[k] = "done"]
    [] s.timers[k] = "sleeping" -> [s EXCEPT !.timers[k] = "cancelled"]
    [] s.timers[k] = "waiting"  -> [RemoveWaiter(s, -k) EXCEPT !.timers[k] = "cancelled"]
    [] s.timers[k] = "closing"  -> [s EXCEPT !.timers[k] = "cancelled_closing"]
    [] OTHER                    -> s

\* Connection._cancel_keepalive
CancelKeepalive(s) ==
  IF s.keepalive_task # 0
  THEN [TaskCancel(s, s.keepalive_task) EXCEPT !.keepalive_task = 0]
  ELSE s

\* Connection._reset_keepalive
ResetKeepalive(s) ==
  LET s1 == CancelKeepalive(s)
      k  == s1.nTimers + 1
  IN  [s1 EXCEPT !.nTimers = k, !.timers[k] = "new", !.keepalive_task = k]

\* Connection._close_writer up to its await: writer.close() on an open writer.
CloseCall(s, a) ==
  [s EXCEPT !.sock[s.writer] = "closed",
            !.closedBy[s.writer] = IF s.closedBy[s.writer] = 0 THEN a ELSE @]

\* Connection._close_writer after wait_closed(): both fields are reset.
CloseWriterEnd(s) == [s EXCEPT !.reader = 0, !.writer = 0]

\* Connection.is_connected
is_connected(s) == s.writer # 0

\* ------------------------------------------------------------------- send
\* send, inside its own `async with self._lock` (lines 66-73): the 'Not
\* connected' check, then write + drain and the read that suspends.
SendLocked(s, t) ==
  IF s.writer = 0 \/ s.reader = 0
  THEN Release([s EXCEPT !.pc[t] = "idle", !.result[t] = "NotConnected"])
  ELSE [s EXCEPT !.pc[t] = "s_read"]

\* Variant: send performs its exchange without taking the session lock.
SendAcquireUnlocked(s, t) == SendLocked(s, t)

\* send, line 65: acquire the lock after connect() has returned.
SendAcquire(s, t) ==
  IF s.lockOwner = 0
  THEN SendLocked([s EXCEPT !.lockOwner = t], t)
  ELSE [s EXCEPT !.waiters = Append(@, t), !.pc[t] = "s_wait"]

\* ---------------------------------------------------------------- connect
\* connect() has returned normally (its lock is released) to its caller:
\* the user for a connect operation, send (line 64) for a send operation.
ConnectReturn(s, t) ==
  IF s.op[t] = "send"
  THEN SendAcquire(s, t)
  ELSE [s EXCEPT !.pc[t] = "idle", !.result[t] = "ok"]

\* Variant: connect opens a socket without testing is_connected.
ConnectLockedNoCheck(s, t) ==
  [s EXCEPT !.pc[t] = "c_open", !.attempt[t] = 0, !.opens[t] = 1]

\* connect, inside the lock (lines 36-43): the idempotent branch, or the
\* first open_connection attempt, which suspends.
ConnectLocked(s, t) ==
  IF is_connected(s)
  THEN ConnectReturn(Release(ResetKeepalive(s)), t)
  ELSE [s EXCEPT !.pc[t] = "c_open", !.attempt[t] = 0, !.opens[t] = 1]

\* connect, line 35: acquire the lock.
ConnectAcquire(s, t) ==
  IF s.lockOwner = 0
  THEN ConnectLocked([s EXCEPT !.lockOwner = t], t)
  ELSE [s EXCEPT !.waiters = Append(@, t), !.pc[t] = "c_wait"]

\* An operation starts: the per-call locals and the recorded outcome are fresh.
Begin(s, t, o) ==
  [s EXCEPT !.op[t] = o, !.result[t] = "none", !.cause[t] = 0,
            !.attempt[t] = 0, !.opens[t] = 0, !.waits[t] = <<>>,
            !.last_err[t] = 0,
            !.opsLeft = @ - 1]

\* connect, lines 43-48: the attempt succeeded.
OpenOk(s, t) ==
  LET x  == s.nSocks + 1
      s1 == [s EXCEPT !.nSocks = x, !.sock[x] = "open", !.reader = x, !.writer = x]
  IN  ConnectReturn(Release(ResetKeepalive(s1)), t)

\* 2 ** n
RECURSIVE Pow2(_)
Pow2(n) == IF n = 0 THEN 1 ELSE 2 * Pow2(n - 1)

\* Variant: the backoff grows linearly instead of doubling.
BackoffDelayLinear(a) == RetryDelayMs * (a + 1)

\* connect, line 52: the backoff delay after failed attempt number a
BackoffDelay(a) == RetryDelayMs * Pow2(a)

\* connect, lines 49-56: the attempt failed (TimeoutError or OSError).
OpenFail(s, t) ==
  LET s1 == [s EXCEPT !.last_err[t] = s.attempt[t] + 1, !.faulted = TRUE]
  IN  IF s.attempt[t] < max_retries - 1
      THEN [s1 EXCEPT !.pc[t] = "c_backoff",
                      !.waits[t] = Append(@, BackoffDelay(s.attempt[t]))]
      ELSE Release([s1 EXCEPT !.pc[t] = "idle", !.result[t] = "ConnectFailed",
                              !.cause[t] = s1.last_err[t]])

\* connect, lines 41-43: next loop iteration after the backoff sleep.
NextAttempt(s, t) ==
  [s EXCEPT !.attempt[t] = @ + 1, !.opens[t] = @ + 1, !.pc[t] = "c_open"]

\* ------------------------------------------------------------- disconnect
\* disconnect, inside the lock (line 61): _close_writer up to its await.
DisconnectLocked(s, t) ==
  IF s.writer # 0
  THEN [CloseCall(s, t) EXCEPT !.pc[t] = "d_close"]
  ELSE Release([CloseWriterEnd(s) EXCEPT !.pc[t] = "idle", !.result[t] = "ok"])

\* disconnect, lines 59-60: cancel the timer outside the lock, then acquire.
DisconnectCall(s, t) ==
  LET s1 == CancelKeepalive(s)
  IN  IF s1.lockOwner = 0
      THEN DisconnectLocked([s1 EXCEPT !.lockOwner = t], t)
      ELSE [s1 EXCEPT !.waiters = Append(@, t), !.pc[t] = "d_wait"]

\* disconnect, after wait_closed() (lines 93-94 and the release).
DisconnectEnd(s, t) ==
  Release([CloseWriterEnd(s) EXCEPT !.pc[t] = "idle", !.result[t] = "ok"])

\* ------------------------------------------------------- send, after read
\* What the exchange on a socket in state st can produce: the reply to the
\* request ("reply"); a read timeout, the reply lost ("timeout") or still on
\* its way ("timeout_late"); b"" ("eof"); bytes that hold no matching frame
\* ("garbage"); the late reply to an earlier, timed-out request ("stale").
\* On a socket that was closed, drain() raises ConnectionResetError
\* ("reset") or the read returns b"".
ReadOutcomes(st) ==
  CASE st = "open" -> {"reply", "garbage", "timeout", "timeout_late", "eof"}
    [] st = "late" -> {"stale", "reply", "timeout_late", "eof"}
    [] OTHER       -> {"eof", "reset"}

\* The outcomes in which the device did not answer the request.
Fault(o) == o \in {"garbage", "timeout", "timeout_late", "eof"}

\* State of the socket after the exchange ended with outcome o.
SockAfter(st, o) ==
  CASE o = "eof" /\ st \in {"open", "late"} -> "eof"
    [] o = "timeout_late"                   -> "late"
    [] o = "stale"                          -> "late"
    [] o = "reply" /\ st = "late"           -> "open"
    [] OTHER                                -> st

\* Variant: send re-arms the idle timer as soon as the read is over, before it
\* looks at what the read produced.
ReadDoneRearmFirst(s, t, o) ==
  LET x  == s.writer
      s1 == [s EXCEPT !.sock[x] = SockAfter(@, o), !.pc[t] = "idle",
                      !.faulted = @ \/ (Fault(o) /\ s.sock[x] = "open")]
      s2 == ResetKeepalive(s1)
  IN  CASE o = "timeout" \/ o = "timeout_late" ->
             Release([s2 EXCEPT !.result[t] = "ResponseTimeout",
                                !.failed = @ \cup {x}])
        [] o = "eof" ->
             Release([s2 EXCEPT !.result[t] = "ClosedBySpeaker",
                                !.failed = @ \cup {x}])
        [] o = "reset" ->
             Release([s1 EXCEPT !.result[t] = "OSError"])
        [] o = "garbage" ->
             Release([s2 EXCEPT !.result[t] = "ProtocolError"])
        [] o = "stale" ->
             Release([s2 EXCEPT !.result[t] = "stale_frame"])
        [] OTHER ->
             Release([s2 EXCEPT !.result[t] = "frame"])

\* Variant: after a read timeout send waits for the reply once more.
ReadDoneReadAgain(s, t, o) ==
  LET x  == s.writer
      s1 == [s EXCEPT !.sock[x] = SockAfter(@, o), !.pc[t] = "idle",
                      !.faulted = @ \/ (Fault(o) /\ s.sock[x] = "open")]
  IN  CASE o = "timeout" \/ o = "timeout_late" ->
             [s1 EXCEPT !.pc[t] = "s_read"]
        [] o = "eof" ->
             Release([s1 EXCEPT !.result[t] = "ClosedBySpeaker",
                                !.failed = @ \cup {x}])
        [] o = "reset" ->
             Release([s1 EXCEPT !.result[t] = "OSError"])
        [] o = "garbage" ->
             Release([ResetKeepalive(s1) EXCEPT !.result[t] = "ProtocolError"])
        [] o = "stale" ->
             Release([ResetKeepalive(s1) EXCEPT !.result[t] = "stale_frame"])
        [] OTHER ->
             Release([ResetKeepalive(s1) EXCEPT !.result[t] = "frame"])

\* send, lines 72-86, from the moment the read (or drain) completes.
ReadDone(s, t, o) ==
  LET x  == s.writer
      s1 == [s EXCEPT !.sock[x] = SockAfter(@, o), !.pc[t] = "idle",
                      !.faulted = @ \/ (Fault(o) /\ s.sock[x] = "open")]
  IN  CASE o = "timeout" \/ o = "timeout_late" ->
             Release([s1 EXCEPT !.result[t] = "ResponseTimeout",
                                !.failed = @ \cup {x}])
        [] o = "eof" ->
             Release([s1 EXCEPT !.result[t] = "ClosedBySpeaker",
                                !.failed = @ \cup {x}])
        [] o = "reset" ->
             Release([s1 EXCEPT !.result[t] = "OSError"])
        [] o = "garbage" ->
             Release([ResetKeepalive(s1) EXCEPT !.result[t] = "ProtocolError"])
        [] o = "stale" ->
             Release([ResetKeepalive(s1) EXCEPT !.result[t] = "stale_frame"])
        [] OTHER ->
             Release([ResetKeepalive(s1) EXCEPT !.result[t] = "frame"])

\* ------------------------------------------------- _keepalive_timeout task
\* line 106 and the end of the task
TimerFinish(s, k) ==
  [s EXCEPT !.keepalive_task = 0, !.timers[k] = "done"]

\* lines 104-106 after wait_closed(), or with no writer to close
TimerEnd(s, k) == TimerFinish(Release(CloseWriterEnd(s)), k)

\* Variant: the timer goes through disconnect(), which cancels the timer
\* task itself before it closes anything.
TimerLockedSelfCancel(s, k) == TimerFinish(Release(s), k)

\* lines 104-105: the timer holds the lock and runs _close_writer
TimerLocked(s, k) ==
  IF s.writer # 0
  THEN [CloseCall(s, -k) EXCEPT !.timers[k] = "closing"]
  ELSE TimerEnd(s, k)

\* Variant: the timer closes the socket without taking the session lock.
TimerAcquireUnlocked(s, k) == TimerLocked(s, k)

\* lines 103-104: the sleep is over, acquire the lock
TimerAcquire(s, k) ==
  IF s.lockOwner = 0
  THEN TimerLocked([s EXCEPT !.lockOwner = -k], k)
  ELSE [s EXCEPT !.waiters = Append(@, -k), !.timers[k] = "waiting"]

\* Variant: a timer cancelled inside its locked section leaves without
\* releasing the lock.
TimerUnwindKeepsLock(s, k) == TimerFinish(s, k)

\* lines 102-106 for a task that receives CancelledError at its await
TimerUnwind(s, k) ==
  IF s.timers[k] = "cancelled_closing"
  THEN TimerFinish(Release(s), k)
  ELSE TimerFinish(s, k)

\* ---------------------------------------------------------------- actions
CallConnect(t) ==
  /\ pc[t] = "idle" /\ opsLeft > 0
  /\ Commit(ConnectAcquire(Begin(Cur, t, "connect"), t))

CallSend(t) ==
  /\ pc[t] = "idle" /\ opsLeft > 0
  /\ Commit(ConnectAcquire(Begin(Cur, t, "send"), t))

CallDisconnect(t) ==
  /\ pc[t] = "idle" /\ opsLeft > 0
  /\ Commit(DisconnectCall(Begin(Cur, t, "disconnect"), t))

\* a queued caller is handed the lock
ConnectGranted(t) ==
  /\ pc[t] = "c_wait" /\ lockOwner = t
  /\ Commit(ConnectLocked(Cur, t))

SendGranted(t) ==
  /\ pc[t] = "s_wait" /\ lockOwner = t
  /\ Commit(SendLocked(Cur, t))

DisconnectGranted(t) ==
  /\ pc[t] = "d_wait" /\ lockOwner = t
  /\ Commit(DisconnectLocked(Cur, t))

\* wait_for(open_connection(...)) completes
OpenSucceeds(t) ==
  /\ pc[t] = "c_open"
  /\ Commit(OpenOk(Cur, t))

OpenFails(t) ==
  /\ pc[t] = "c_open"
  /\ Commit(OpenFail(Cur, t))

BackoffDone(t) ==
  /\ pc[t] = "c_backoff"
  /\ Commit(NextAttempt(Cur, t))

\* the read of send completes
ReadCompletes(t) ==
  /\ pc[t] = "s_read"
  /\ \E o \in ReadOutcomes(sock[writer]) : Commit(ReadDone(Cur, t, o))

\* wait_closed() of disconnect completes
DisconnectClosed(t) ==
  /\ pc[t] = "d_close"
  /\ Commit(DisconnectEnd(Cur, t))

\* the timer task runs for the first time and suspends in sleep()
TimerStart(k) ==
  /\ timers[k] = "new"
  /\ Commit([Cur EXCEPT !.timers[k] = "sleeping"])

\* the keepalive delay has elapsed
TimerFire(k) ==
  /\ timers[k] = "sleeping"
  /\ Commit(TimerAcquire(Cur, k))

TimerGranted(k) ==
  /\ timers[k] = "waiting" /\ lockOwner = -k
  /\ Commit(TimerLocked(Cur, k))

TimerClosed(k) ==
  /\ timers[k] = "closing"
  /\ Commit(TimerEnd(Cur, k))

TimerCancelled(k) ==
  /\ timers[k] \in {"cancelled", "cancelled_closing"}
  /\ Commit(TimerUnwind(Cur, k))

TaskStep(t) ==
  \/ ConnectGranted(t)
  \/ SendGranted(t)
  \/ DisconnectGranted(t)
  \/ OpenSucceeds(t)
  \/ OpenFails(t)
  \/ BackoffDone(t)
  \/ ReadCompletes(t)
  \/ DisconnectClosed(t)

TimerStep(k) ==
  \/ TimerStart(k)
  \/ TimerFire(k)
  \/ TimerGranted(k)
  \/ TimerClosed(k)
  \/ TimerCancelled(k)

Invoke(t) ==
  \/ CallConnect(t)
  \/ CallSend(t)
  \/ CallDisconnect(t)

Next ==
  \/ \E t \in Tasks : Invoke(t)
  \/ \E t \in Tasks : TaskStep(t)
  \/ \E k \in TimerIds : TimerStep(k)

Spec == Init /\ [][Next]_vars

\* The event loop runs every task that is ready, and every sleep, connect
\* attempt and read is bounded by its timeout: a step that is not the
\* invocation of a new operation and stays possible is eventually taken.
Progress ==
  \/ \E t \in Tasks : TaskStep(t)
  \/ \E k \in TimerIds : TimerStep(k)

InitIdle == InitWith(DefaultMaxRetries, IdleOps)

FairSpec == InitIdle /\ [][Next]_vars /\ WF_vars(Progress)

\* ------------------------------------------------- connect() retry policy
\* connect() and disconnect() only, for every max_retries in 1..MaxRetries.
InitRetry == \E r \in 1..MaxRetries : InitWith(r, MaxOps)

NextRetry ==
  \/ \E t \in Tasks : CallConnect(t)
  \/ \E t \in Tasks : CallDisconnect(t)
  \/ \E t \in Tasks : ConnectGranted(t)
  \/ \E t \in Tasks : DisconnectGranted(t)
  \/ \E t \in Tasks : OpenSucceeds(t)
  \/ \E t \in Tasks : OpenFails(t)
  \/ \E t \in Tasks : BackoffDone(t)
  \/ \E t \in Tasks : DisconnectClosed(t)
  \/ \E k \in TimerIds : TimerStep(k)

RetrySpec == InitRetry /\ [][NextRetry]_vars

\* ------------------------------------------- reachable, answering device
\* connect() and send() only, against a device that accepts every connection
\* and answers every request in time.
ReadAnswered(t) ==
  /\ pc[t] = "s_read" /\ sock[writer] = "open"
  /\ Commit(ReadDone(Cur, t, "reply"))

NextAnswering ==
  \/ \E t \in Tasks : CallConnect(t)
  \/ \E t \in Tasks : CallSend(t)
  \/ \E t \in Tasks : ConnectGranted(t)
  \/ \E t \in Tasks : SendGranted(t)
  \/ \E t \in Tasks : OpenSucceeds(t)
  \/ \E t \in Tasks : ReadAnswered(t)
  \/ \E k \in TimerIds : TimerStep(k)

AnsweringSpec == Init /\ [][NextAnswering]_vars

\* ============================================================ frame codec
\* protocol.py, lines 8-13 and the Command values used here
GET == 71                      \* 0x47
SET == 83                      \* 0x53
RESPONSE == 82                 \* 0x52
FLAG == 128                    \* 0x80
LengthMask == 127              \* 0x7F
OK_RESPONSE == <<RESPONSE, 17, 255>>
FIRMWARE == 17                 \* 0x11
DEVICE_NAME == 32              \* 0x20
VOLUME == 37                   \* 0x25
SOURCE == 48                   \* 0x30

\* Optional[int] = None
None == 0 - 1

\* a | b and a & b on non-negative integers
RECURSIVE BitOr(_, _)
BitOr(a, b) ==
  IF a = 0 THEN b
  ELSE IF b = 0 THEN a
  ELSE (IF a % 2 = 1 \/ b % 2 = 1 THEN 1 ELSE 0) + 2 * BitOr(a \div 2, b \div 2)

RECURSIVE BitAnd(_, _)
BitAnd(a, b) ==
  IF a = 0 \/ b = 0 THEN 0
  ELSE (a % 2) * (b % 2) + 2 * BitAnd(a \div 2, b \div 2)

\* bytes([...]) raises ValueError unless every element is in range(0, 256)
ValidBytes(seq) == \A j \in 1..Len(seq) : seq[j] \in 0..255

\* a Request instance, and a raised ValueError
Request(d) == [kind |-> "request", data |-> d]
ValueError == [kind |-> "ValueError"]

\* Python indexing and slicing, 0-based: d[i] and d[a:b]
At(d, i) == d[i + 1]
Slice(d, a, b) == SubSeq(d, a + 1, IF b < Len(d) THEN b ELSE Len(d))

\* str.encode("utf-8"), a text being the sequence of its code points
Utf8Char(cp) ==
  IF cp < 128 THEN <<cp>>
  ELSE IF cp < 2048 THEN <<192 + (cp \div 64), 128 + (cp % 64)>>
  ELSE IF cp < 65536
       THEN <<224 + (cp \div 4096), 128 + ((cp \div 64) % 64), 128 + (cp % 64)>>
       ELSE <<240 + (cp \div 262144), 128 + ((cp \div 4096) % 64),
              128 + ((cp \div 64) % 64), 128 + (cp % 64)>>

\* the encodings of the characters, one after the other
RECURSIVE Utf8(_)
Utf8(text) ==
  IF text = <<>> THEN <<>>
  ELSE IF Len(text) = 1 THEN Utf8Char(text[1])
  ELSE LET h == Len(text) \div 2
       IN  Utf8(SubSeq(text, 1, h)) \o Utf8(SubSeq(text, h + 1, Len(text)))

\* Request.get
get(command_byte) ==
  LET d == <<GET, command_byte, FLAG>>
  IN  IF ValidBytes(d) THEN Request(d) ELSE ValueError

\* Request.set_byte
set_byte(command_byte, value) ==
  LET d == <<SET, command_byte, BitOr(FLAG, 1), value>>
  IN  IF ValidBytes(d) THEN Request(d) ELSE ValueError

\* Request.set_string
set_string(command_byte, value) ==
  LET value_bytes == Utf8(value) \o <<0>>
      length_flag == BitOr(Len(value_bytes), FLAG)
      head        == <<SET, command_byte, length_flag>>
  IN  IF ValidBytes(head) THEN Request(head \o value_bytes) ELSE ValueError

\* the constructor call c, evaluated
Encode(c) ==
  CASE c.ctor = "get"        -> get(c.command_byte)
    [] c.ctor = "set_byte"   -> set_byte(c.command_byte, c.value)
    [] c.ctor = "set_string" -> set_string(c.command_byte, c.value)

\* a scanned frame: the tuple (raw, command, payload)
Frame(raw, cmd, payload) == [raw |-> raw, cmd |-> cmd, payload |-> payload]

\* Response._parse_frames, lines 94-96: bytes that are not the marker are
\* skipped one by one; the index of the first marker from i on (len(data) if
\* there is none)
SkipToMarker(d, i) ==
  LET M == {j \in i..(Len(d) - 1) : At(d, j) = RESPONSE}
  IN  IF M = {} THEN Len(d) ELSE CHOOSE j \in M : \A m \in M : j <= m

\* Variant: after a data frame the scan resumes right behind its header, so
\* that payload bytes are searched for the marker.
RECURSIVE ScanFromMarkerSearch(_, _, _)
ScanFromMarkerSearch(d, i, fs) ==
  IF ~(i < Len(d)) THEN fs
  ELSE IF At(d, i) # RESPONSE THEN ScanFromMarkerSearch(d, SkipToMarker(d, i), fs)
  ELSE IF i + 3 > Len(d) THEN fs
  ELSE IF Slice(d, i, i + 3) = OK_RESPONSE
       THEN ScanFromMarkerSearch(d, i + 3, Append(fs, Frame(OK_RESPONSE, 17, <<>>)))
  ELSE LET cmd       == At(d, i + 1)
           length    == BitAnd(At(d, i + 2), LengthMask)
           frame_end == i + 3 + length
       IN  IF frame_end > Len(d) THEN fs
           ELSE ScanFromMarkerSearch(d, i + 3,
                  Append(fs, Frame(Slice(d, i, frame_end), cmd,
                                   Slice(d, i + 3, frame_end))))

\* Variant: an incomplete trailing frame is kept, cut at the end of the buffer.
RECURSIVE ScanFromKeepPartial(_, _, _)
ScanFromKeepPartial(d, i, fs) ==
  IF ~(i < Len(d)) THEN fs
  ELSE IF At(d, i) # RESPONSE THEN ScanFromKeepPartial(d, SkipToMarker(d, i), fs)
  ELSE IF i + 3 > Len(d) THEN fs
  ELSE IF Slice(d, i, i + 3) = OK_RESPONSE
       THEN ScanFromKeepPartial(d, i + 3, Append(fs, Frame(OK_RESPONSE, 17, <<>>)))
  ELSE LET cmd       == At(d, i + 1)
           length    == BitAnd(At(d, i + 2), LengthMask)
           frame_end == IF i + 3 + length > Len(d) THEN Len(d) ELSE i + 3 + length
       IN  ScanFromKeepPartial(d, frame_end,
             Append(fs, Frame(Slice(d, i, frame_end), cmd,
                              Slice(d, i + 3, frame_end))))

\* Response._parse_frames, lines 92-122: the loop, from index i on, with the
\* frames found so far
RECURSIVE ScanFrom(_, _, _)
ScanFrom(d, i, fs) ==
  IF ~(i < Len(d)) THEN fs
  ELSE IF At(d, i) # RESPONSE THEN ScanFrom(d, SkipToMarker(d, i), fs)
  ELSE IF i + 3 > Len(d) THEN fs
  ELSE IF Slice(d, i, i + 3) = OK_RESPONSE
       THEN ScanFrom(d, i + 3, Append(fs, Frame(OK_RESPONSE, 17, <<>>)))
  ELSE LET cmd       == At(d, i + 1)
           length    == BitAnd(At(d, i + 2), LengthMask)
           frame_end == i + 3 + length
       IN  IF frame_end > Len(d) THEN fs
           ELSE ScanFrom(d, frame_end,
                  Append(fs, Frame(Slice(d, i, frame_end), cmd,
                                   Slice(d, i + 3, frame_end))))

\* Response._parse_frames
ParseFrames(d) == ScanFrom(d, 0, <<>>)

\* a Response instance, and a raised ProtocolError
Returned(raw, cmd, payload) ==
  [kind |-> "frame", raw |-> raw, command_byte |-> cmd, payload |-> payload]
Raised(msg) == [kind |-> "error", msg |-> msg]

\* Variant: the first frame is returned whatever its command.
RECURSIVE SelectFromFirst(_, _, _)
SelectFromFirst(fs, n, expected_command) ==
  IF n > Len(fs) THEN Raised("No matching response")
  ELSE IF fs[n].raw = OK_RESPONSE THEN Returned(fs[n].raw, 17, <<>>)
  ELSE Returned(fs[n].raw, fs[n].cmd, fs[n].payload)

\* Response.parse, lines 79-85: the loop over the frames, from the n-th on
RECURSIVE SelectFrom(_, _, _)
SelectFrom(fs, n, expected_command) ==
  IF n > Len(fs) THEN Raised("No matching response")
  ELSE IF fs[n].raw = OK_RESPONSE THEN Returned(fs[n].raw, 17, <<>>)
  ELSE IF expected_command = None \/ fs[n].cmd = expected_command
       THEN Returned(fs[n].raw, fs[n].cmd, fs[n].payload)
  ELSE SelectFrom(fs, n + 1, expected_command)

\* Variant: an empty buffer is scanned like any other.
ParseNoEmptyCheck(d, expected_command) ==
  SelectFrom(ParseFrames(d), 1, expected_command)

\* Response.parse
Parse(d, expected_command) ==
  IF d = <<>>
  THEN Raised("Empty response")
  ELSE SelectFrom(ParseFrames(d), 1, expected_command)

\* Variant: the command byte is the filter for every request.
ExpectedCmdAlways(req) == req.data[2]

\* connection.py, line 85: expected_cmd
ExpectedCmd(req) == IF req.data[1] = GET THEN req.data[2] ELSE None

\* connection.py, lines 85-86: what send returns or raises for the bytes read
SendParse(req, d) == Parse(d, ExpectedCmd(req))

\* ------------------------------------------------- inputs of the codec
\* texts: every sequence of at most MaxChars of these characters, and every
\* repetition of one of them up to MaxRepeat times
CodePoints == {84, 233, 8364}          \* 'T', e-acute (2 bytes), euro sign (3 bytes)
Repeat(cp, n) == [j \in 1..n |-> cp]
Texts ==
  UNION {[1..n -> CodePoints] : n \in 0..MaxChars}
    \cup {Repeat(cp, n) : cp \in CodePoints, n \in 0..MaxRepeat}

GetCall(c) == [ctor |-> "get", command_byte |-> c]
SetByteCall(c, v) == [ctor |-> "set_byte", command_byte |-> c, value |-> v]
SetStringCall(c, txt) == [ctor |-> "set_string", command_byte |-> c, value |-> txt]

\* the calls of EncodeSpec
Calls ==
  {GetCall(c) : c \in {FIRMWARE, VOLUME, SOURCE}}
    \cup {SetByteCall(c, v) : c \in {VOLUME, SOURCE}, v \in {0, 50, 255}}
    \cup {SetStringCall(DEVICE_NAME, txt) : txt \in Texts}

\* the calls of CodecSpec
ExchangeCalls ==
  {GetCall(FIRMWARE), GetCall(VOLUME), GetCall(SOURCE),
   SetByteCall(VOLUME, 50), SetStringCall(DEVICE_NAME, <<84>>)}

\* what the device can put on the wire: the acknowledgement, and data frames
\* [0x52, command, length|0x80, payload] whose payload may hold the marker,
\* the acknowledgement bytes, or LengthMask bytes
AckFrame == Frame(OK_RESPONSE, 17, <<>>)
DataFrame(c, payload) ==
  Frame(<<RESPONSE, c, BitOr(Len(payload), FLAG)>> \o payload, c, payload)
Payloads == {<<>>, <<RESPONSE>>, OK_RESPONSE, Repeat(65, LengthMask)}
DeviceFrames ==
  {AckFrame} \cup {DataFrame(c, pl) : c \in {FIRMWARE, VOLUME, SOURCE}, pl \in Payloads}
SentLists == UNION {[1..n -> DeviceFrames] : n \in 0..MaxFrames}

\* the bytes of a list of frames, one after the other
RECURSIVE Wire(_)
Wire(fs) == IF fs = <<>> THEN <<>> ELSE Head(fs).raw \o Wire(Tail(fs))

\* what may follow the frames in the buffer: nothing, a byte that is not the
\* marker, or the beginning of a frame that is cut short
Tails ==
  {<<>>, <<0>>, <<RESPONSE>>, <<RESPONSE, VOLUME>>, <<RESPONSE, FIRMWARE>>,
   <<RESPONSE, VOLUME, 130, 50>>, <<RESPONSE, FIRMWARE, 255, 65>>}

\* ------------------------------------------------- actions of the codec
\* the Request constructor runs
EncodeCall ==
  /\ cpc = "call"
  /\ request' = Encode(call)
  /\ cpc' = "encoded"
  /\ UNCHANGED <<call, sent, tail, data, frames, response, outcome>>

\* reader.read() returns the bytes the device sent
Receive ==
  /\ cpc = "encoded" /\ request.kind = "request"
  /\ \E fs \in SentLists, tl \in Tails :
       /\ sent' = fs
       /\ tail' = tl
       /\ data' = Wire(fs) \o tl
  /\ cpc' = "received"
  /\ UNCHANGED <<call, request, frames, response, outcome>>

\* Response.parse(data, expected_cmd) runs (connection.py lines 85-86)
Decode ==
  /\ cpc = "received"
  /\ frames' = IF data = <<>> THEN <<>> ELSE ParseFrames(data)
  /\ response' = SendParse(request, data)
  /\ cpc' = "done"
  /\ UNCHANGED <<call, request, sent, tail, data, outcome>>

\* Variant: the frame is taken for the acknowledgement by its command byte.
is_ok_by_command(r) == r.command_byte = 17

\* Response.is_ok, protocol.py lines 124-126
is_ok(r) == r.raw = OK_RESPONSE

\* Response.value_byte, protocol.py lines 128-132
value_byte(r) ==
  IF r.payload = <<>> THEN Raised("Response has no payload")
  ELSE [kind |-> "returned", value |-> r.payload[1]]

\* a Speaker method returning None, and one raising CommandError
ReturnedNone == [kind |-> "returned", value |-> None]
CommandError == [kind |-> "CommandError"]

\* The Speaker method around the exchange, after send: an error raised by
\* send propagates; a SET method tests is_ok and raises CommandError
\* (speaker.py lines 97-99, 180-182, 332-334, and alike in every set method);
\* a GET method reads value_byte (lines 87-88).
MethodEnd(c, r) ==
  IF r.kind = "error" THEN r
  ELSE IF c.ctor = "get" THEN value_byte(r)
  ELSE IF ~is_ok(r) THEN CommandError
  ELSE ReturnedNone

\* the Speaker method that made the call returns or raises
Complete ==
  /\ cpc = "done"
  /\ outcome' = MethodEnd(call, response)
  /\ cpc' = "returned"
  /\ UNCHANGED <<call, request, sent, tail, data, frames, response>>

ConnectionVars ==
  <<max_retries, faulted, reader, writer, keepalive_task, lockOwner,
    waiters, timers, nTimers, sock, closedBy, nSocks, pc, op, attempt,
    opens, waits, last_err, result, cause, opsLeft, failed>>

\* the codec is used on its own: no Connection operation is invoked
InitCodecWith(cs) ==
  /\ InitConnection(DefaultMaxRetries, 0)
  /\ call \in cs
  /\ request = [kind |-> "none"]
  /\ sent = <<>>
  /\ tail = <<>>
  /\ data = <<>>
  /\ frames = <<>>
  /\ response = [kind |-> "none"]
  /\ outcome = [kind |-> "none"]
  /\ cpc = "call"
  /\ ScanUnused /\ ModelsUnused /\ FacadeUnused

\* request encoding alone, for every call of Calls
InitEncode == InitCodecWith(Calls)
NextEncode ==
  EncodeCall /\ UNCHANGED <<ConnectionVars, scanVars, modelVars, facadeVars>>
EncodeSpec == InitEncode /\ [][NextEncode]_vars

\* one exchange: a request is built, a buffer is read and parsed
InitCodec == InitCodecWith(ExchangeCalls)
NextCodec ==
  \/ EncodeCall /\ UNCHANGED <<ConnectionVars, scanVars, modelVars, facadeVars>>
  \/ Receive /\ UNCHANGED <<ConnectionVars, scanVars, modelVars, facadeVars>>
  \/ Decode /\ UNCHANGED <<ConnectionVars, scanVars, modelVars, facadeVars>>
  \/ Complete /\ UNCHANGED <<ConnectionVars, scanVars, modelVars, facadeVars>>
CodecSpec == InitCodec /\ [][NextCodec]_vars

\* ------------------------------------------- the scanner, step by step
MaxPieces == 4

\* Response._parse_frames, line 113
FrameEndShort(d, i) == i + 2 + BitAnd(At(d, i + 2), LengthMask)
FrameEnd(d, i) == i + 3 + BitAnd(At(d, i + 2), LengthMask)

\* what one iteration leaves: the index, the frames, and whether it left the
\* loop by `break`
Iter(i, fs, stop) == [i |-> i, frames |-> fs, stop |-> stop]

\* Variant: the index is moved behind an incomplete frame before the loop
\* condition ends the scan.
ScanIterationSkipPartial(d, i, fs) ==
  IF At(d, i) # RESPONSE THEN Iter(i + 1, fs, FALSE)
  ELSE IF i + 3 > Len(d) THEN Iter(i, fs, TRUE)
  ELSE IF Slice(d, i, i + 3) = OK_RESPONSE
       THEN Iter(i + 3, Append(fs, Frame(OK_RESPONSE, 17, <<>>)), FALSE)
  ELSE LET cmd       == At(d, i + 1)
           frame_end == FrameEnd(d, i)
       IN  IF frame_end > Len(d) THEN Iter(frame_end, fs, FALSE)
           ELSE Iter(frame_end,
                     Append(fs, Frame(Slice(d, i, frame_end), cmd,
                                      Slice(d, i + 3, frame_end))), FALSE)

\* Response._parse_frames, lines 93-120: one iteration of the loop, entered
\* with i < len(data)
ScanIteration(d, i, fs) ==
  IF At(d, i) # RESPONSE THEN Iter(i + 1, fs, FALSE)
  ELSE IF i + 3 > Len(d) THEN Iter(i, fs, TRUE)
  ELSE IF Slice(d, i, i + 3) = OK_RESPONSE
       THEN Iter(i + 3, Append(fs, Frame(OK_RESPONSE, 17, <<>>)), FALSE)
  ELSE LET cmd       == At(d, i + 1)
           frame_end == FrameEnd(d, i)
       IN  IF frame_end > Len(d) THEN Iter(i, fs, TRUE)
           ELSE Iter(frame_end,
                     Append(fs, Frame(Slice(d, i, frame_end), cmd,
                                      Slice(d, i + 3, frame_end))), FALSE)

\* the buffers scanned: up to MaxPieces pieces, each a byte, a frame header or
\* a frame
Pieces ==
  {<<0>>, <<17>>, <<RESPONSE>>, <<129>>, <<255>>, OK_RESPONSE,
   <<RESPONSE, 0, FLAG>>, <<RESPONSE, VOLUME, 129>>, <<RESPONSE, VOLUME, 129, 50>>}
RECURSIVE Join(_)
Join(ps) == IF ps = <<>> THEN <<>> ELSE Head(ps) \o Join(Tail(ps))
Buffers == {Join(ps) : ps \in UNION {[1..n -> Pieces] : n \in 0..MaxPieces}}

\* the while loop runs one iteration (lines 92-120)
ScanLoop ==
  /\ cpc = "scan" /\ idx < Len(data)
  /\ \E n \in {ScanIteration(data, idx, frames)} :
       /\ idx' = n.i
       /\ frames' = n.frames
       /\ starts' = IF Len(n.frames) > Len(frames) THEN Append(starts, idx)
                    ELSE starts
       /\ cpc' = IF n.stop THEN "break" ELSE "scan"
  /\ UNCHANGED <<call, request, sent, tail, data, response, outcome>>

\* the loop is over and the list is returned (line 122)
ScanReturn ==
  /\ cpc = "break" \/ (cpc = "scan" /\ ~(idx < Len(data)))
  /\ cpc' = "returned"
  /\ UNCHANGED <<call, request, sent, tail, data, frames, response, outcome>>
  /\ UNCHANGED scanVars

\* _parse_frames is called on a buffer (lines 90-91)
InitScan ==
  /\ InitConnection(DefaultMaxRetries, 0)
  /\ call = [ctor |-> "none"]
  /\ request = [kind |-> "none"]
  /\ sent = <<>>
  /\ tail = <<>>
  /\ data \in Buffers
  /\ frames = <<>>
  /\ response = [kind |-> "none"]
  /\ outcome = [kind |-> "none"]
  /\ cpc = "scan"
  /\ ScanUnused /\ ModelsUnused /\ FacadeUnused

NextScan ==
  \/ ScanLoop /\ UNCHANGED <<ConnectionVars, modelVars, facadeVars>>
  \/ ScanReturn /\ UNCHANGED <<ConnectionVars, modelVars, facadeVars>>

\* the loop is sequential code: an iteration that can run does run
ScanSpec == InitScan /\ [][NextScan]_vars /\ WF_vars(NextScan)

\* -------------------------------------------------- the records of models.py
\* enums.py: the members' values
Source == {2, 9, 10, 11, 12}
StandbyTime == {0, 1, 2}
Orientation == {0, 1}
BassExtension == {0, 1, 2}
SubPolarity == {"+", "-"}

\* int(b) of a bool, as in `b << 7`
Bit(b) == IF b THEN 1 ELSE 0

RECURSIVE BitXor(_, _)
BitXor(a, b) ==
  IF a = 0 /\ b = 0 THEN 0
  ELSE ((a + b) % 2) + 2 * BitXor(a \div 2, b \div 2)

\* the constructors of the four state records
SpeakerState(source, standby_time, orientation, is_on) ==
  [cls |-> "SpeakerState", source |-> source, standby_time |-> standby_time,
   orientation |-> orientation, is_on |-> is_on]
VolumeState(volume, is_muted) ==
  [cls |-> "VolumeState", volume |-> volume, is_muted |-> is_muted]
EqMode(desk_mode, wall_mode, phase_correction, high_pass, bass_extension, sub_polarity) ==
  [cls |-> "EqMode", desk_mode |-> desk_mode, wall_mode |-> wall_mode,
   phase_correction |-> phase_correction, high_pass |-> high_pass,
   bass_extension |-> bass_extension, sub_polarity |-> sub_polarity]
VolumeLimitState(limit, enabled) ==
  [cls |-> "VolumeLimitState", limit |-> limit, enabled |-> enabled]

\* an enum constructor given a value that is no member raises ValueError
EnumError == [cls |-> "ValueError"]

\* SpeakerState.from_raw, lines 17-22
SpeakerState_from_raw(b) ==
  LET source       == BitAnd(b, 15)
      standby_time == BitAnd(b \div 16, 3)
      orientation  == BitAnd(b \div 64, 1)
      is_on        == ~(BitAnd(b \div 128, 1) # 0)
  IN  IF source \in Source /\ standby_time \in StandbyTime /\ orientation \in Orientation
      THEN SpeakerState(source, standby_time, orientation, is_on)
      ELSE EnumError

\* Variant: the power bit is written as it is, not inverted.
SpeakerState_to_raw_plain(s) ==
  BitOr(BitOr(BitOr(s.source, s.standby_time * 16), s.orientation * 64),
        Bit(s.is_on) * 128)

\* SpeakerState.to_raw, lines 24-29
SpeakerState_to_raw(s) ==
  BitOr(BitOr(BitOr(s.source, s.standby_time * 16), s.orientation * 64),
        Bit(~s.is_on) * 128)

\* Variant: the volume is read from six bits, as the balance is.
VolumeState_from_raw_6bit(b) ==
  VolumeState(BitAnd(b, 63), BitAnd(b \div 128, 1) # 0)

\* VolumeState.from_raw, lines 40-41, and to_raw, lines 43-46
VolumeState_from_raw(b) ==
  VolumeState(BitAnd(b, 127), BitAnd(b \div 128, 1) # 0)
VolumeState_to_raw(s) ==
  BitOr(BitAnd(s.volume, 127), Bit(s.is_muted) * 128)

\* Variant: the polarity is read as `raw >> 6`, without the mask.
EqMode_from_raw_unmasked(b) ==
  LET bass_extension == BitAnd(b \div 16, 3)
  IN  IF bass_extension \in BassExtension
      THEN EqMode(BitAnd(b, 1) # 0, BitAnd(b \div 2, 1) # 0,
                  BitAnd(b \div 4, 1) # 0, BitAnd(b \div 8, 1) # 0,
                  bass_extension,
                  IF b \div 64 # 0 THEN "-" ELSE "+")
      ELSE EnumError

\* EqMode.from_raw, lines 61-69
EqMode_from_raw(b) ==
  LET bass_extension == BitAnd(b \div 16, 3)
  IN  IF bass_extension \in BassExtension
      THEN EqMode(BitAnd(b, 1) # 0, BitAnd(b \div 2, 1) # 0,
                  BitAnd(b \div 4, 1) # 0, BitAnd(b \div 8, 1) # 0,
                  bass_extension,
                  IF BitAnd(b \div 64, 1) # 0 THEN "-" ELSE "+")
      ELSE EnumError

\* EqMode.to_raw, lines 71-84
EqMode_to_raw(s) ==
  LET v0 == 128
      v1 == IF s.desk_mode THEN BitOr(v0, 1) ELSE v0
      v2 == IF s.wall_mode THEN BitOr(v1, 2) ELSE v1
      v3 == IF s.phase_correction THEN BitOr(v2, 4) ELSE v2
      v4 == IF s.high_pass THEN BitOr(v3, 8) ELSE v3
      v5 == BitOr(v4, s.bass_extension * 16)
  IN  IF s.sub_polarity = "-" THEN BitOr(v5, 64) ELSE v5

\* VolumeLimitState.from_raw, lines 95-96, and to_raw, lines 98-102
VolumeLimitState_from_raw(b) ==
  VolumeLimitState(BitAnd(b, 127), BitAnd(b \div 128, 1) # 0)
VolumeLimitState_to_raw(s) ==
  LET value == BitAnd(s.limit, 127)
  IN  IF s.enabled THEN BitOr(value, 128) ELSE value

\* s.to_raw() and type(s).from_raw(b)
to_raw(s) ==
  CASE s.cls = "SpeakerState"     -> SpeakerState_to_raw(s)
    [] s.cls = "VolumeState"      -> VolumeState_to_raw(s)
    [] s.cls = "EqMode"           -> EqMode_to_raw(s)
    [] s.cls = "VolumeLimitState" -> VolumeLimitState_to_raw(s)
from_raw(cls, b) ==
  CASE cls = "SpeakerState"     -> SpeakerState_from_raw(b)
    [] cls = "VolumeState"      -> VolumeState_from_raw(b)
    [] cls = "EqMode"           -> EqMode_from_raw(b)
    [] cls = "VolumeLimitState" -> VolumeLimitState_from_raw(b)

\* The float fields and arguments of EQSettings are counted in units of
\* 1/Unit: every predefined field is a multiple of 1/2, the values offered are
\* multiples of 1/8, and on such values the float subtraction is exact and the
\* float division rounds to the same integer as the exact quotient.
Unit == 8

\* the six predefined settings, lines 132-137
EQSetting(name, command, min2, max2, step2) ==
  [name |-> name, command |-> command, min_value |-> min2 * (Unit \div 2),
   max_value |-> max2 * (Unit \div 2), step |-> step2 * (Unit \div 2)]
EQ_DESK_DB == EQSetting("desk_db", 40, 0 - 12, 0, 1)
EQ_WALL_DB == EQSetting("wall_db", 41, 0 - 12, 0, 1)
EQ_TREBLE_DB == EQSetting("treble_db", 42, 0 - 4, 4, 1)
EQ_HIGH_PASS_HZ == EQSetting("high_pass_hz", 43, 100, 240, 10)
EQ_SUB_OUT_HZ == EQSetting("sub_out_hz", 44, 80, 500, 10)
EQ_SUB_GAIN_DB == EQSetting("sub_gain_db", 45, 0 - 20, 20, 2)
EQSettings ==
  {EQ_DESK_DB, EQ_WALL_DB, EQ_TREBLE_DB, EQ_HIGH_PASS_HZ, EQ_SUB_OUT_HZ,
   EQ_SUB_GAIN_DB}

\* max(a, b) and min(a, b)
Max(a, b) == IF a >= b THEN a ELSE b
Min(a, b) == IF a <= b THEN a ELSE b

\* round(n / d) for n >= 0 and d > 0: to the nearest integer, a tie to the
\* even one
Round(n, d) ==
  LET q == n \div d
      r == n % d
  IN  IF 2 * r < d THEN q
      ELSE IF 2 * r > d THEN q + 1
      ELSE IF q % 2 = 0 THEN q ELSE q + 1

\* EQSettings.decode, lines 121-123
EQSettings_decode(self, b) ==
  LET index == BitXor(b, 128)
  IN  self.min_value + (self.step * index)

\* Variant: the quotient is truncated, not rounded.
EQSettings_encode_truncate(self, value) ==
  LET clamped == Max(self.min_value, Min(self.max_value, value))
      index   == (clamped - self.min_value) \div self.step
  IN  BitOr(index, 128)

\* EQSettings.encode, lines 125-128
EQSettings_encode(self, value) ==
  LET clamped == Max(self.min_value, Min(self.max_value, value))
      index   == Round(clamped - self.min_value, self.step)
  IN  BitOr(index, 128)

\* the records offered: every combination of members and booleans, volumes
\* and limits 0..100
MaxLevel == 100
Records ==
  {SpeakerState(so, st, o, on) :
     so \in Source, st \in StandbyTime, o \in Orientation, on \in BOOLEAN}
  \cup {VolumeState(v, m) : v \in 0..MaxLevel, m \in BOOLEAN}
  \cup {EqMode(d, w, pc0, hp, be, sp) :
          d \in BOOLEAN, w \in BOOLEAN, pc0 \in BOOLEAN, hp \in BOOLEAN,
          be \in BassExtension, sp \in SubPolarity}
  \cup {VolumeLimitState(l, e) : l \in 0..MaxLevel, e \in BOOLEAN}

\* the values offered to encode: every multiple of 1/8 from Margin units
\* below min_value to Margin units above max_value, and two values far outside
Margin == 2
Far == 1000
Values(self) ==
  ((self.min_value - Margin * Unit)..(self.max_value + Margin * Unit))
    \cup {0 - Far * Unit, Far * Unit}
Float(x) == [cls |-> "float", value |-> x]
Parameters ==
  {[cls |-> "EQSettings", self |-> e, value |-> v] :
     e \in EQSettings, v \in UNION {Values(e1) : e1 \in EQSettings}}

\* the bytes offered to from_raw of the four records: every byte
RawBytes ==
  {[cls |-> "byte", of |-> c, byte |-> b] :
     c \in {"SpeakerState", "VolumeState", "EqMode", "VolumeLimitState"},
     b \in 0..255}

\* s.to_raw() runs
ToRaw ==
  /\ cpc = "model" /\ model.cls \notin {"EQSettings", "byte"}
  /\ encoded' = to_raw(model)
  /\ cpc' = "encoded"
  /\ UNCHANGED <<model, decoded>>

\* from_raw runs on the byte
FromRaw ==
  /\ cpc = "encoded" /\ model.cls # "EQSettings"
  /\ decoded' = from_raw(model.cls, encoded)
  /\ cpc' = "decoded"
  /\ UNCHANGED <<model, encoded>>

\* EqMode.from_raw runs on the byte with bit 7 cleared, as the device
\* returns it
FromRawMasked ==
  /\ cpc = "encoded" /\ model.cls = "EqMode"
  /\ decoded' = from_raw(model.cls, BitAnd(encoded, 127))
  /\ cpc' = "decoded"
  /\ UNCHANGED <<model, encoded>>

\* setting.encode(value) runs
EncodeValue ==
  /\ cpc = "model" /\ model.cls = "EQSettings"
  /\ encoded' = EQSettings_encode(model.self, model.value)
  /\ cpc' = "encoded"
  /\ UNCHANGED <<model, decoded>>

\* setting.decode runs on the byte
DecodeValue ==
  /\ cpc = "encoded" /\ model.cls = "EQSettings"
  /\ decoded' = Float(EQSettings_decode(model.self, encoded))
  /\ cpc' = "decoded"
  /\ UNCHANGED <<model, encoded>>

\* from_raw runs on a byte as the device may send it
FromByte ==
  /\ cpc = "model" /\ model.cls = "byte"
  /\ encoded' = model.byte
  /\ decoded' = from_raw(model.of, model.byte)
  /\ cpc' = "read"
  /\ UNCHANGED model

\* the record (the value) that came out of the byte is encoded again
ToRawAgain ==
  /\ cpc \in {"decoded", "read"} /\ decoded.cls # "ValueError"
  /\ encoded' = IF model.cls = "EQSettings"
                 THEN EQSettings_encode(model.self, decoded.value)
                 ELSE to_raw(decoded)
  /\ cpc' = IF cpc = "decoded" THEN "again" ELSE "reread"
  /\ UNCHANGED <<model, decoded>>

CodecRest == <<call, request, sent, tail, data, frames, response, outcome>>

InitModels ==
  /\ InitConnection(DefaultMaxRetries, 0)
  /\ call = [ctor |-> "none"]
  /\ request = [kind |-> "none"]
  /\ sent = <<>>
  /\ tail = <<>>
  /\ data = <<>>
  /\ frames = <<>>
  /\ response = [kind |-> "none"]
  /\ outcome = [kind |-> "none"]
  /\ cpc = "model"
  /\ model \in Records \cup Parameters \cup RawBytes
  /\ encoded = 0
  /\ decoded = [cls |-> "none"]
  /\ ScanUnused /\ FacadeUnused

NextModels ==
  \/ ToRaw /\ UNCHANGED <<ConnectionVars, CodecRest, scanVars, facadeVars>>
  \/ FromRaw /\ UNCHANGED <<ConnectionVars, CodecRest, scanVars, facadeVars>>
  \/ FromRawMasked /\ UNCHANGED <<ConnectionVars, CodecRest, scanVars, facadeVars>>
  \/ EncodeValue /\ UNCHANGED <<ConnectionVars, CodecRest, scanVars, facadeVars>>
  \/ DecodeValue /\ UNCHANGED <<ConnectionVars, CodecRest, scanVars, facadeVars>>
  \/ FromByte /\ UNCHANGED <<ConnectionVars, CodecRest, scanVars, facadeVars>>
  \/ ToRawAgain /\ UNCHANGED <<ConnectionVars, CodecRest, scanVars, facadeVars>>
ModelsSpec == InitModels /\ [][NextModels]_vars

\* ------------------------------------- the Speaker facade, task by task
EQ_MODE == 39

\* Every method goes through Connection.send, and the exchanges of one
\* Connection are serialized by its lock, so an exchange is one step here.
\* The device is tests/conftest.py MockSpeakerServer: a SET stores the value
\* byte under the command, a GET returns the stored byte.

\* a method call with its positional argument and the keywords passed; a
\* keyword left out is None
MethodCall(method, volume, kwargs) ==
  [method |-> method, volume |-> volume, kwargs |-> kwargs]
NoCall == MethodCall("none", 0, <<>>)

\* `x if x is not None else default`
Arg(kwargs, name, default) ==
  IF name \in DOMAIN kwargs THEN kwargs[name] ELSE default

\* the command a method reads and writes
CommandOf(c) ==
  CASE c.method \in {"set_volume", "mute", "unmute"} -> VOLUME
    [] c.method = "set_eq_mode" -> EQ_MODE
    [] OTHER -> SOURCE

\* set_volume reads only `if mute is None` (lines 92-94); every other method
\* modelled starts with a read
ReadsFirst(c) == ~(c.method = "set_volume" /\ "mute" \in DOMAIN c.kwargs)

\* the byte a method writes, given the byte b its read returned
NewByte(c, b) ==
  CASE c.method = "set_volume" ->
         VolumeState_to_raw(
           VolumeState(Max(0, Min(100, c.volume)),
                       Arg(c.kwargs, "mute", VolumeState_from_raw(b).is_muted)))
    [] c.method = "set_eq_mode" ->
         LET cur == EqMode_from_raw(b)
         IN  EqMode_to_raw(
               EqMode(Arg(c.kwargs, "desk_mode", cur.desk_mode),
                      Arg(c.kwargs, "wall_mode", cur.wall_mode),
                      Arg(c.kwargs, "phase_correction", cur.phase_correction),
                      Arg(c.kwargs, "high_pass", cur.high_pass),
                      Arg(c.kwargs, "bass_extension", cur.bass_extension),
                      Arg(c.kwargs, "sub_polarity", cur.sub_polarity)))
    [] OTHER ->
         LET cur == SpeakerState_from_raw(b)
         IN  SpeakerState_to_raw(
               SpeakerState(Arg(c.kwargs, "source", cur.source),
                            Arg(c.kwargs, "standby_time", cur.standby_time),
                            Arg(c.kwargs, "orientation", cur.orientation),
                            cur.is_on))

\* the calls offered to the tasks
MethodCalls ==
  {MethodCall("set_volume", 30, <<>>), MethodCall("set_volume", 150, <<>>),
   MethodCall("set_volume", 50, [mute |-> TRUE]),
   MethodCall("set_volume", 50, [mute |-> FALSE]),
   MethodCall("mute", 0, <<>>), MethodCall("unmute", 0, <<>>),
   MethodCall("set_eq_mode", 0, [desk_mode |-> FALSE]),
   MethodCall("set_eq_mode", 0, [wall_mode |-> TRUE]),
   MethodCall("set_eq_mode", 0, [bass_extension |-> 2, sub_polarity |-> "-"]),
   MethodCall("set_source", 0, [source |-> 10]),
   MethodCall("set_standby_time", 0, [standby_time |-> 2]),
   MethodCall("set_orientation", 0, [orientation |-> 1])}

\* task t calls a method of the Speaker
MethodStart(t) ==
  /\ fpc[t] = "idle"
  /\ \E c \in MethodCalls :
       /\ fcall' = [fcall EXCEPT ![t] = c]
       /\ fpc' = [fpc EXCEPT ![t] = IF ReadsFirst(c) THEN "read" ELSE "write"]
  /\ UNCHANGED <<device, current>>

\* the GET exchange of t's method completes (get_volume, get_eq_mode,
\* get_state); mute() and unmute() go on as set_volume(current.volume,
\* mute=...) (lines 101-107)
MethodRead(t) ==
  /\ fpc[t] = "read"
  /\ \E b \in {device[CommandOf(fcall[t])]} :
       /\ current' = [current EXCEPT ![t] = b]
       /\ fcall' = [fcall EXCEPT ![t] =
            CASE @.method = "mute" ->
                   MethodCall("set_volume", VolumeState_from_raw(b).volume,
                              [mute |-> TRUE])
              [] @.method = "unmute" ->
                   MethodCall("set_volume", VolumeState_from_raw(b).volume,
                              [mute |-> FALSE])
              [] OTHER -> @]
  /\ fpc' = [fpc EXCEPT ![t] = "write"]
  /\ UNCHANGED device

\* the SET exchange of t's method completes: the device stores the byte and
\* acknowledges, the method returns
MethodWrite(t) ==
  /\ fpc[t] = "write"
  /\ device' = [device EXCEPT ![CommandOf(fcall[t])] = NewByte(fcall[t], current[t])]
  /\ fpc' = [fpc EXCEPT ![t] = "done"]
  /\ UNCHANGED <<fcall, current>>

\* an exchange of t's method fails in send: the method raises
MethodFails(t) ==
  /\ fpc[t] \in {"read", "write"}
  /\ fpc' = [fpc EXCEPT ![t] = "failed"]
  /\ UNCHANGED <<device, fcall, current>>

\* MockSpeakerServer.state, conftest.py lines 13-28, muted or not
InitFacade ==
  /\ InitConnection(DefaultMaxRetries, 0)
  /\ CodecUnused /\ ScanUnused /\ ModelsUnused
  /\ \E v \in {50, 178} :
       device = [c \in {VOLUME, EQ_MODE, SOURCE} |->
                   CASE c = VOLUME -> v [] c = EQ_MODE -> 5 [] OTHER -> 2]
  /\ fcall = [t \in Tasks |-> NoCall]
  /\ fpc = [t \in Tasks |-> "idle"]
  /\ current = [t \in Tasks |-> 0]

NextFacade ==
  \E t \in Tasks :
    \/ MethodStart(t) /\ UNCHANGED <<ConnectionVars, codecVars, scanVars, modelVars>>
    \/ MethodRead(t) /\ UNCHANGED <<ConnectionVars, codecVars, scanVars, modelVars>>
    \/ MethodWrite(t) /\ UNCHANGED <<ConnectionVars, codecVars, scanVars, modelVars>>
    \/ MethodFails(t) /\ UNCHANGED <<ConnectionVars, codecVars, scanVars, modelVars>>
FacadeSpec == InitFacade /\ [][NextFacade]_vars

\* ------------------------------------------- the blocking adapter, _sync.py
\* One thread makes the wrapped calls, one after the other; each runs the
\* event loop until the method is over and then again for Speaker.close()
\* (sync_wrapper, lines 47-51).  Between the runs the loop stands still.
Caller == 1

\* a timer task the loop has a handle ready for: created and not yet run,
\* woken by a cancel, or handed the lock.  A ready handle runs in the last
\* iteration of a run or at the start of the next one, before the next step
\* of the caller; a sleep or a wait_closed() ends only while the loop runs.
Ready(k) ==
  \/ timers[k] \in {"new", "cancelled", "cancelled_closing"}
  \/ timers[k] = "waiting" /\ lockOwner = 0 - k
Quiet == \A k \in TimerIds : ~Ready(k)
LoopRuns == pc[Caller] # "idle"

\* line 48: self._run(attr(...)); the method starts with a send
SyncCall ==
  /\ pc[Caller] = "idle" /\ op[Caller] \in {"none", "disconnect"}
  /\ opsLeft > 0 /\ Quiet
  /\ Commit(ConnectAcquire(Begin(Cur, Caller, "send"), Caller))

\* the method goes on with another send (set_volume: speaker.py lines 93, 96)
SyncSendAgain ==
  /\ pc[Caller] = "idle" /\ op[Caller] = "send"
  /\ result[Caller] \in {"frame", "stale_frame"}
  /\ opsLeft > 0
  /\ Commit(ConnectAcquire(Begin(Cur, Caller, "send"), Caller))

\* line 51: the method returned or raised; self._run(self._speaker.close())
SyncFinally ==
  /\ pc[Caller] = "idle" /\ op[Caller] = "send" /\ Quiet
  /\ Commit(DisconnectCall([Begin(Cur, Caller, "disconnect") EXCEPT !.opsLeft = opsLeft],
                           Caller))

InitSync == InitWith(DefaultMaxRetries, MaxOps)

NextSync ==
  \/ SyncCall
  \/ SyncSendAgain
  \/ SyncFinally
  \/ TaskStep(Caller)
  \/ \E k \in TimerIds : TimerStart(k)
  \/ \E k \in TimerIds : TimerCancelled(k)
  \/ \E k \in TimerIds : TimerGranted(k)
  \/ \E k \in TimerIds : LoopRuns /\ TimerFire(k)
  \/ \E k \in TimerIds : LoopRuns /\ TimerClosed(k)
SyncSpec == InitSync /\ [][NextSync]_vars

\* ------------------------------------------------------- type correctness
TypeOK ==
  /\ max_retries \in 1..MaxRetries /\ faulted \in BOOLEAN
  /\ reader \in {0} \cup SockIds /\ writer = reader
  /\ keepalive_task \in {0} \cup TimerIds
  /\ nTimers \in 0..MaxTimers /\ nSocks \in 0..MaxSocks
  /\ opsLeft \in 0..MaxOps
  /\ \A k \in TimerIds : timers[k] = "unused" <=> k > nTimers
  /\ \A x \in SockIds : sock[x] = "unopened" <=> x > nSocks
  /\ (waiters # <<>>) => lockOwner # 0

\* ------------------------------------------------------ derived predicates
LiveTimers == {k \in TimerIds : LiveTimer(timers[k])}
SendErrors == {"NotConnected", "ResponseTimeout", "ClosedBySpeaker", "OSError",
               "ProtocolError"}

\* the outcomes of a send that went through Response.parse (line 86)
ParseResults == {"frame", "stale_frame", "ProtocolError"}

\* the agents inside a locked section: between the acquisition of the lock
\* and its release
InSection ==
  {t \in Tasks : pc[t] \in {"c_open", "c_backoff", "s_read", "d_close"}}
    \cup {0 - k : k \in {j \in TimerIds : timers[j] \in {"closing", "cancelled_closing"}}}

\* ================================================================= claims

\* C1: exchanges are strictly serialized: while one send is between the write
\* of its request and the read of the reply it holds the session lock, and no
\* other send is between its own write and read.
C1_ExchangesSerialized ==
  \A t1 \in Tasks :
    pc[t1] = "s_read" =>
      /\ lockOwner = t1
      /\ \A t2 \in Tasks : pc[t2] = "s_read" => t2 = t1

\* a send is mid-exchange while another task's send is waiting for the lock
C1_Witness ==
  \E t1, t2 \in Tasks :
    /\ t1 # t2
    /\ pc[t1] = "s_read"
    /\ op[t2] = "send" /\ pc[t2] \in {"c_wait", "s_wait"}

\* C2: a send is one atomic connect->write->read unit: a send whose connect
\* step succeeded never fails with 'Not connected'.
C2_SendNeverNotConnected ==
  \A t \in Tasks : ~(op[t] = "send" /\ result[t] = "NotConnected")

\* C3: at most one idle-timer task that can still close the socket is
\* outstanding in every reachable state.
C3_OneTimerOutstanding == Cardinality(LiveTimers) <= 1

\* C4: only the most recently armed timer ever closes the socket: a timer that
\* is closing the socket is the one armed last.
C4_OnlyLatestTimerCloses ==
  \A k \in TimerIds : timers[k] = "closing" => k = nTimers

\* C5: liveness of the idle keepalive: from every state in which the session
\* is Connected, unless a further connect, send or disconnect is invoked, the
\* session eventually is Disconnected: reader and writer unset and every
\* socket that was opened closed (checked under FairSpec).
Disconnected ==
  /\ reader = 0 /\ writer = 0
  /\ \A x \in SockIds : sock[x] \in {"unopened", "closed"}

C5_IdleEventuallyCloses ==
  \A n \in 0..IdleOps :
    (writer # 0 /\ opsLeft = n) ~> (Disconnected \/ opsLeft < n)

\* the session was Connected after the last operation had been invoked and an
\* idle timer, not a disconnect(), has closed its socket
C5_Witness ==
  /\ opsLeft = 0 /\ Disconnected
  /\ \A t \in Tasks : pc[t] = "idle" /\ op[t] # "disconnect"
  /\ nSocks > 0 /\ closedBy[nSocks] < 0

\* C6: an idle-timeout close is never surfaced as an error: against a
\* reachable, answering device, with no disconnect() involved, every send
\* returns a frame, however the timer tasks interleave with it
\* (checked under AnsweringSpec).
C6_IdleCloseNotAnError ==
  \A t \in Tasks : op[t] = "send" => result[t] \in {"none", "frame"}

\* C7: after a send failed with a response timeout or a zero-length read, the
\* next send does not write its request on the socket that failed.
C7_ReconnectAfterFailure ==
  \A t \in Tasks : pc[t] = "s_read" => writer \notin failed

\* C8: connect() from Disconnected makes at most max_retries open attempts;
\* the wait after failed attempt k (k = 0, 1, ...) is retry_delay * 2^k; when
\* every attempt fails there are exactly max_retries attempts and
\* max_retries - 1 waits (none after the last); a successful attempt ends the
\* sequence at once (checked under RetrySpec, max_retries in 1..MaxRetries).
C8_RetryBackoff ==
  \A t \in Tasks :
    /\ opens[t] <= max_retries
    /\ \A i \in 1..Len(waits[t]) : waits[t][i] = RetryDelayMs * (2 ^ (i - 1))
    /\ pc[t] = "c_open" => (Len(waits[t]) = opens[t] - 1 /\ last_err[t] = opens[t] - 1)
    /\ pc[t] = "c_backoff" => (Len(waits[t]) = opens[t] /\ last_err[t] = opens[t])
    /\ result[t] = "ConnectFailed" =>
         (opens[t] = max_retries /\ Len(waits[t]) = max_retries - 1)
    /\ (result[t] = "ok" /\ op[t] = "connect" /\ opens[t] > 0) =>
         (last_err[t] = opens[t] - 1 /\ Len(waits[t]) = opens[t] - 1)

\* a connect() with max_retries = 3 has failed after waits of 500 ms, 1000 ms
C8_Witness ==
  \E t \in Tasks :
    /\ max_retries = 3
    /\ result[t] = "ConnectFailed"
    /\ waits[t] = <<RetryDelayMs, 2 * RetryDelayMs>>

\* C9: the step in which connect() gives up raises ConnectionError caused by
\* the error of the last attempt and leaves the Connection Disconnected, the
\* lock released and no idle timer armed.
C9_FailedConnectLeavesNothing ==
  [][\A t \in Tasks :
       (result[t] # "ConnectFailed" /\ result'[t] = "ConnectFailed") =>
         /\ cause'[t] = max_retries
         /\ reader' = 0 /\ writer' = 0
         /\ lockOwner' # t
         /\ keepalive_task' = 0
         /\ \A k \in TimerIds : ~LiveTimer(timers'[k])]_vars

\* C10: connect() is idempotent: every step in which connect() (called
\* directly, or by send) runs its is_connected test on a Connected session
\* opens no socket, keeps reader, writer and every socket as they are, cancels
\* the timer the handle refers to and arms a fresh one; a direct connect()
\* then returns without error.
C10_ConnectIdempotent ==
  [][\A t \in Tasks :
       ( /\ writer # 0
         /\ \/ ((CallConnect(t) \/ CallSend(t)) /\ lockOwner = 0)
            \/ ConnectGranted(t) ) =>
         /\ reader' = reader /\ writer' = writer
         /\ nSocks' = nSocks /\ sock' = sock
         /\ opens'[t] = 0
         /\ nTimers' = nTimers + 1
         /\ keepalive_task' = nTimers' /\ timers'[nTimers'] = "new"
         /\ (keepalive_task # 0 => ~LiveTimer(timers'[keepalive_task]))
         /\ (op'[t] = "connect" => (pc'[t] = "idle" /\ result'[t] = "ok"))]_vars

\* a connect() has returned without an open attempt, the session Connected
C10_Witness ==
  \E t \in Tasks :
    /\ op[t] = "connect" /\ result[t] = "ok" /\ opens[t] = 0
    /\ writer # 0 /\ keepalive_task # 0

\* C11: disconnect() is safe and idempotent: whenever it returns, in any state
\* and whatever connect or send is in flight, it has not failed, the session
\* is Disconnected (reader and writer unset, every opened socket closed) and
\* no idle timer is pending.
C11_DisconnectLeavesNothing ==
  [][\A t \in Tasks :
       ( /\ CallDisconnect(t) \/ DisconnectGranted(t) \/ DisconnectClosed(t)
         /\ pc'[t] = "idle" ) =>
         /\ result'[t] = "ok"
         /\ reader' = 0 /\ writer' = 0
         /\ \A x \in SockIds : sock'[x] \in {"unopened", "closed"}
         /\ \A k \in TimerIds : ~LiveTimer(timers'[k])]_vars

\* C12: the socket is opened and closed only under the session lock: every
\* agent inside a locked section is the holder of the lock (so at most one of
\* connect, disconnect, send and the timer's close is inside at a time), a
\* socket is opened by the holder, it is closed by the holder, and never while
\* a send is between its write and its read.
C12_SocketUnderLock ==
  /\ [](InSection \subseteq {lockOwner})
  /\ [][/\ nSocks' # nSocks =>
            (lockOwner \in Tasks /\ pc[lockOwner] = "c_open")
         /\ \A x \in SockIds :
              (sock[x] # "closed" /\ sock'[x] = "closed") =>
                /\ closedBy'[x] # 0
                /\ closedBy'[x] = lockOwner'
                /\ closedBy'[x] \in InSection'
                /\ \A t \in Tasks : pc[t] # "s_read" /\ pc'[t] # "s_read"]_vars

\* an idle timer is closing the socket while a send waits for the lock
C12_Witness ==
  \E k \in TimerIds, t \in Tasks :
    /\ timers[k] = "closing" /\ closedBy[writer] = 0 - k
    /\ op[t] = "send" /\ pc[t] \in {"c_wait", "s_wait"}

\* C13: in send, a read that times out fails with 'Response timeout' and a
\* zero-length read with 'Connection closed by speaker'; in both cases the
\* send returns no frame, Response.parse is not reached, no timer is
\* cancelled or armed by that step and the session lock is released.
C13_ReadFailures ==
  [][\A t \in Tasks : \A o \in {"timeout", "timeout_late", "eof"} :
       ( /\ pc[t] = "s_read"
         /\ o \in ReadOutcomes(sock[writer])
         /\ Commit(ReadDone(Cur, t, o)) ) =>
         /\ result'[t] = IF o = "eof" THEN "ClosedBySpeaker" ELSE "ResponseTimeout"
         /\ result'[t] \notin ParseResults
         /\ pc'[t] = "idle"
         /\ nTimers' = nTimers /\ timers' = timers
         /\ keepalive_task' = keepalive_task
         /\ lockOwner' # t /\ t \notin InSection']_vars

\* one send has failed with 'Response timeout' and another with 'Connection
\* closed by speaker', the lock is free and the only timers ever armed are
\* those of the two connect steps
C13_Witness ==
  \E t1, t2 \in Tasks :
    /\ result[t1] = "ResponseTimeout" /\ result[t2] = "ClosedBySpeaker"
    /\ lockOwner = 0 /\ nTimers = 2

\* ------------------------------------------ derived predicates, frame codec
\* the Response made from a scanned frame
AsResponse(f) == Returned(f.raw, f.cmd, f.payload)
AckResponse == Returned(OK_RESPONSE, 17, <<>>)

\* the filter of the exchange under way: the command of a GET request
Filter == IF request.data[1] = GET THEN request.data[2] ELSE None

\* the positions of the frames list that hold an acknowledgement, and those
\* the filter selects
AckAt == {n \in 1..Len(frames) : frames[n].raw = OK_RESPONSE}
SelectedAt == {n \in 1..Len(frames) : Filter = None \/ frames[n].cmd = Filter}

\* the least element of a non-empty set of positions
First(S) == CHOOSE n \in S : \A m \in S : n <= m

\* a data frame whose first three bytes are the acknowledgement bytes
StartsWithAck(d) == Len(d) >= 3 /\ SubSeq(d, 1, 3) = OK_RESPONSE
AckAlias(f) == f.raw # OK_RESPONSE /\ StartsWithAck(f.raw)

\* tl is the beginning of a frame, cut before its declared end
Truncated(tl) ==
  /\ tl # <<>> /\ tl[1] = RESPONSE
  /\ \/ Len(tl) < 3
     \/ Len(tl) < 3 + (tl[3] % FLAG)

\* C14: send filters by the request's command byte exactly when the request
\* is a GET: a frame returned for a GET request is the acknowledgement or a
\* data frame of the buffer with the request's command byte; a frame returned
\* for a SET request is the acknowledgement or the first frame of the buffer.
C14_FilterOnlyForGet ==
  cpc = "done" =>
    /\ response = Parse(data, IF call.ctor = "get" THEN call.command_byte ELSE None)
    /\ response.kind = "frame" =>
         IF call.ctor = "get"
         THEN \/ response = AckResponse
              \/ /\ response.command_byte = call.command_byte
                 /\ \E n \in 1..Len(frames) : response = AsResponse(frames[n])
         ELSE \/ response = AckResponse
              \/ response = AsResponse(frames[1])

\* a SET request got the first frame of a buffer whose second frame has
\* another command, and that first frame is not the acknowledgement
C14_Witness ==
  /\ cpc = "done" /\ call.ctor = "set_byte"
  /\ Len(frames) = 2 /\ frames[1].cmd # frames[2].cmd
  /\ frames[1].cmd # call.command_byte
  /\ response = AsResponse(frames[1]) /\ response # AckResponse

\* C15: acknowledgements always win: whenever the scanned frame list holds the
\* acknowledgement frame at any position, Parse returns the acknowledgement,
\* whatever the filter.
C15_AckAlwaysWins ==
  (cpc = "done" /\ AckAt # {}) => response = AckResponse

\* C16: with no acknowledgement in the scanned list, Parse returns the first
\* frame the filter selects (the first frame at all with no filter), and its
\* payload is that frame's declared-length payload.
C16_FirstSelectedFrame ==
  (cpc = "done" /\ AckAt = {} /\ SelectedAt # {}) =>
    LET f == frames[First(SelectedAt)]
    IN  /\ response = AsResponse(f)
        /\ Len(response.payload) = response.raw[3] % FLAG
        /\ response.raw = <<RESPONSE, response.command_byte, response.raw[3]>>
                            \o response.payload
        /\ Filter = None => First(SelectedAt) = 1

\* a GET got the second frame of the buffer, the first having another command
C16_Witness ==
  /\ cpc = "done" /\ call.ctor = "get" /\ AckAt = {}
  /\ Len(frames) = 2 /\ frames[1].cmd # call.command_byte
  /\ response = AsResponse(frames[2]) /\ response.payload = <<RESPONSE>>

\* C17: Parse raises a protocol error exactly when the buffer is empty
\* ('Empty response', nothing scanned) or the scanned list holds neither an
\* acknowledgement nor a frame the filter selects ('No matching response');
\* in every other case it returns a frame.
C17_ParseFailsExactly ==
  cpc = "done" =>
    /\ response.kind \in {"frame", "error"}
    /\ response.kind = "error" <=> (data = <<>> \/ (AckAt = {} /\ SelectedAt = {}))
    /\ data = <<>> => (response = Raised("Empty response") /\ frames = <<>>)
    /\ (response.kind = "error" /\ data # <<>>) =>
         response = Raised("No matching response")

\* a buffer that holds frames, none of them selected, was rejected
C17_Witness ==
  /\ cpc = "done" /\ Len(frames) = 2
  /\ response = Raised("No matching response")

\* C18, as stated: scanning the concatenation of well-formed response frames
\* yields exactly those frames, in order.
C18_ScanRecoversFrames ==
  (cpc = "done" /\ tail = <<>>) => frames = sent

\* C18, amended: the same, for frames none of which is a data frame that
\* begins with the acknowledgement bytes (command 0x11, declared length 127).
C18_ScanRecoversUnaliased ==
  (cpc = "done" /\ tail = <<>> /\ \A n \in 1..Len(sent) : ~AckAlias(sent[n])) =>
    frames = sent

\* two frames were recovered, the first with the acknowledgement bytes as its
\* payload, the second with the marker as its payload
C18_Witness ==
  /\ cpc = "done" /\ tail = <<>> /\ Len(sent) = 2 /\ frames = sent
  /\ sent[1].payload = OK_RESPONSE /\ sent[2].payload = <<RESPONSE>>

\* C19, as stated: after k complete frames, a marker whose declared bytes are
\* not all present ends the scan, which returns exactly the k frames; Parse
\* succeeds iff one of them is selectable and otherwise raises 'No matching
\* response'.
C19_TruncatedTailDropped ==
  (cpc = "done" /\ Truncated(tail)) =>
    /\ frames = sent
    /\ response.kind = "frame" <=> (AckAt # {} \/ SelectedAt # {})
    /\ response.kind # "frame" => response = Raised("No matching response")

\* C19, amended: the same, for a cut frame that does not begin with the
\* acknowledgement bytes.
C19_TruncatedDataTailDropped ==
  ( /\ cpc = "done" /\ Truncated(tail)
    /\ ~StartsWithAck(tail)
    /\ \A n \in 1..Len(sent) : ~AckAlias(sent[n]) ) =>
    /\ frames = sent
    /\ response.kind = "frame" <=> (AckAt # {} \/ SelectedAt # {})
    /\ response.kind # "frame" => response = Raised("No matching response")

\* two complete frames were recovered in front of a frame cut inside its
\* payload, and one of them was returned
C19_Witness ==
  /\ cpc = "done" /\ Len(tail) > 3 /\ Truncated(tail)
  /\ ~StartsWithAck(tail)
  /\ Len(sent) = 2 /\ frames = sent /\ response.kind = "frame"

\* C20: get(c) = [0x47, c, 0x80]; set_byte(c, v) = [0x53, c, 0x81, v];
\* set_string(c, text) = [0x53, c, len|0x80], the UTF-8 bytes of text and one
\* NUL; the third byte of every request has its high bit set, and for every
\* text its low 7 bits are the number of bytes that follow it.
C20_RequestEncoding ==
  cpc = "encoded" =>
    /\ request.kind = "request"
    /\ request.data[3] \div FLAG = 1
    /\ call.ctor = "get" => request.data = <<GET, call.command_byte, 128>>
    /\ call.ctor = "set_byte" =>
         request.data = <<SET, call.command_byte, 129, call.value>>
    /\ call.ctor = "set_string" =>
         /\ SubSeq(request.data, 1, 2) = <<SET, call.command_byte>>
         /\ SubSeq(request.data, 4, Len(request.data)) = Utf8(call.value) \o <<0>>
         /\ request.data[3] % FLAG = Len(request.data) - 3

\* C27: in every reachable state the session is Disconnected or Connected with
\* an idle timer armed, and whenever no operation is in flight an idle timer
\* is pending if and only if the socket is open.
C27_ConnectedIffTimer ==
  /\ writer # 0 => LiveTimers # {}
  /\ (\A t \in Tasks : pc[t] = "idle") => (LiveTimers # {} <=> writer # 0)

\* the order of the suspension points of one send: waiting for connect's
\* lock, inside connect, waiting for send's lock, between write and read, over
SendRank(p) ==
  CASE p = "c_wait"    -> 1
    [] p = "c_open"    -> 2
    [] p = "c_backoff" -> 2
    [] p = "s_wait"    -> 3
    [] p = "s_read"    -> 4
    [] OTHER           -> 5

\* C28: send never retries: a send in flight never goes back to connect once
\* connect has returned, nor back to the write once it has written; its
\* connect makes at most max_retries attempts and its failure ends the send;
\* the completion of its one read ends the send; and a send that is over has
\* returned one frame or failed.
C28_SendNeverRetries ==
  [][\A t \in Tasks :
       (op[t] = "send" /\ pc[t] # "idle") =>
         /\ op'[t] = "send"
         /\ SendRank(pc'[t]) >= SendRank(pc[t])
         /\ opens'[t] <= max_retries
         /\ (pc[t] = "s_read" /\ SendRank(pc'[t]) > 2) => opens'[t] <= 1 + Len(waits'[t])
         /\ (OpenFails(t) /\ attempt[t] = max_retries - 1) =>
              (pc'[t] = "idle" /\ result'[t] = "ConnectFailed")
         /\ ReadCompletes(t) => pc'[t] = "idle"
         /\ pc'[t] # "idle" => result'[t] = "none"
         /\ pc'[t] = "idle" =>
              result'[t] \in {"frame", "stale_frame", "ConnectFailed"} \cup SendErrors]_vars

\* a send is over whose connect used every attempt and failed, and another
\* whose single read timed out
C28_Witness ==
  \E t1, t2 \in Tasks :
    /\ op[t1] = "send" /\ result[t1] = "ConnectFailed" /\ opens[t1] = max_retries
    /\ op[t2] = "send" /\ result[t2] = "ResponseTimeout" /\ opens[t2] = 1

\* a frame as the scanner may produce it: the acknowledgement, or a header
\* followed by the payload its length byte announces
WellFormed(f) ==
  \/ f = Frame(OK_RESPONSE, 17, <<>>)
  \/ /\ Len(f.raw) >= 3
     /\ f.raw[1] = RESPONSE
     /\ f.cmd = f.raw[2]
     /\ Len(f.payload) = BitAnd(f.raw[3], LengthMask)
     /\ Len(f.raw) = 3 + Len(f.payload)
     /\ f.payload = SubSeq(f.raw, 4, Len(f.raw))

\* the buffer indices inside a frame found so far
InFrame ==
  {j \in 0..(Len(data) - 1) :
     \E k \in 1..Len(frames) : starts[k] <= j /\ j < starts[k] + Len(frames[k].raw)}

\* C29: every frame produced by the scanner is well formed, and the frames
\* tile the buffer in order: each is the substring of the buffer at its
\* offset, the offsets increase without overlap, and every byte passed over
\* outside the frames is a non-marker byte.  The list returned is the one
\* Response.parse selects from.
C29_FramesTileBuffer ==
  cpc \in {"scan", "break", "returned"} =>
    /\ Len(starts) = Len(frames)
    /\ \A k \in 1..Len(frames) :
         /\ WellFormed(frames[k])
         /\ starts[k] + Len(frames[k].raw) <= Len(data)
         /\ frames[k].raw = Slice(data, starts[k], starts[k] + Len(frames[k].raw))
         /\ starts[k] + Len(frames[k].raw)
              <= (IF k < Len(frames) THEN starts[k + 1] ELSE idx)
    /\ \A j \in 0..(idx - 1) : j \notin InFrame => At(data, j) # RESPONSE
    /\ cpc = "returned" => frames = ParseFrames(data)

\* the scan returned two frames, with skipped bytes in front of the first and
\* between the two
C29_Witness ==
  /\ cpc = "returned" /\ Len(frames) = 2
  /\ starts[1] > 0
  /\ starts[2] > starts[1] + Len(frames[1].raw)

\* the payload length announced at the scan index (0 when no length byte is
\* there)
LengthAt(d, i) == IF i + 2 < Len(d) THEN BitAnd(At(d, i + 2), LengthMask) ELSE 0

\* C30: the scanner terminates on every buffer: each iteration advances the
\* scan index by 1, by 3 or by 3+L, or leaves the loop; the index never
\* exceeds the length of the buffer; and the scan returns.
C30_ScanTerminates ==
  /\ [](idx <= Len(data))
  /\ [][cpc = "scan" =>
          \/ cpc' = "scan" /\ idx' - idx \in {1, 3, 3 + LengthAt(data, idx)}
          \/ cpc' # "scan" /\ idx' = idx]_vars
  /\ <>(cpc = "returned")

\* a scan returned that skipped a byte, took an acknowledgement and a data
\* frame with a payload, and left the loop at a truncated frame
C30_Witness ==
  /\ cpc = "returned" /\ idx < Len(data)
  /\ starts # <<>> /\ starts[1] > 0
  /\ \E k \in 1..Len(frames) : frames[k].raw = OK_RESPONSE
  /\ \E k \in 1..Len(frames) : Len(frames[k].payload) > 0

\* C21: the state records round-trip: for every SpeakerState, VolumeState
\* (volume 0..100), EqMode and VolumeLimitState (limit 0..100) s built from
\* enum members and booleans, from_raw(to_raw(s)) = s, for EqMode also when
\* bit 7 of the byte is cleared before from_raw.
C21_RecordsRoundTrip ==
  /\ (cpc = "encoded" /\ model.cls # "EQSettings") =>
       /\ encoded \in 0..255
       /\ model.cls = "EqMode" => BitAnd(encoded, 128) = 128
  /\ (cpc = "decoded" /\ model.cls # "EQSettings") => decoded = model

\* an EqMode with every bit in use came back from the byte with bit 7
\* cleared, and so did a switched-off SpeakerState from its byte
C21_Witness ==
  /\ cpc = "decoded"
  /\ \/ /\ model = EqMode(TRUE, TRUE, TRUE, TRUE, 2, "-")
        /\ encoded = 239 /\ decoded = model
     \/ /\ model = SpeakerState(12, 2, 1, FALSE)
        /\ encoded = 236 /\ decoded = model

\* v clamped to [min_value, max_value]
Clamped(self, v) == Max(self.min_value, Min(self.max_value, v))
Abs(x) == IF x < 0 THEN 0 - x ELSE x

\* C22: for each predefined setting and every value v, encode(v) has bit 7
\* set and a 7-bit index in 0..(max-min)/step, and decode(encode(v)) is v
\* clamped to [min, max] and rounded to the nearest step: a point of the grid
\* min + k*step at most half a step from the clamped value, which is max for
\* a v above max and min for a v below min.
C22_ScaledCodec ==
  /\ (cpc \in {"encoded", "decoded"} /\ model.cls = "EQSettings") =>
       /\ encoded \in 128..255
       /\ BitAnd(encoded, 127) \in
            0..((model.self.max_value - model.self.min_value) \div model.self.step)
  /\ (cpc = "decoded" /\ model.cls = "EQSettings") =>
       /\ (decoded.value - model.self.min_value) % model.self.step = 0
       /\ 2 * Abs(decoded.value - Clamped(model.self, model.value)) <= model.self.step
       /\ model.value >= model.self.max_value => decoded.value = model.self.max_value
       /\ model.value <= model.self.min_value => decoded.value = model.self.min_value

\* a value strictly between two steps, nearer the upper one, was encoded and
\* decoded to the upper one
C22_Witness ==
  /\ cpc = "decoded" /\ model.cls = "EQSettings"
  /\ model.self = EQ_HIGH_PASS_HZ
  /\ model.value = 50 * Unit + 3 * Unit
  /\ decoded.value = 55 * Unit

Writes(t) == fpc[t] = "write" /\ fpc'[t] = "done"

\* C24: set_volume(v) called without mute preserves the device's mute flag:
\* after its write the flag is the one the device had immediately before the
\* write, whatever the other tasks call meanwhile; and the volume written is
\* v clamped to 0..100.
C24_MutePreserved ==
  [][\A t \in Tasks :
       (Writes(t) /\ fcall[t].method = "set_volume"
                  /\ "mute" \notin DOMAIN fcall[t].kwargs) =>
         /\ VolumeState_from_raw(device'[VOLUME]).is_muted
              = VolumeState_from_raw(device[VOLUME]).is_muted
         /\ VolumeState_from_raw(device'[VOLUME]).volume
              = Max(0, Min(100, fcall[t].volume))]_vars

\* the fields of the records behind the EQ_MODE and SOURCE bytes
EqFields ==
  {"desk_mode", "wall_mode", "phase_correction", "high_pass", "bass_extension",
   "sub_polarity"}
StateFields == {"source", "standby_time", "orientation", "is_on"}

\* C25: set_eq_mode changes only the parameters that are passed: every field
\* whose argument is None has, in the byte written, the value it had on the
\* device immediately before the write, whatever the other tasks call
\* meanwhile; and so for set_source, set_standby_time and set_orientation on
\* the speaker-state byte.
C25_OnlyPassedFieldsChange ==
  [][\A t \in Tasks :
       /\ (Writes(t) /\ fcall[t].method = "set_eq_mode") =>
            \A f \in EqFields \ DOMAIN fcall[t].kwargs :
              EqMode_from_raw(device'[EQ_MODE])[f] = EqMode_from_raw(device[EQ_MODE])[f]
       /\ (Writes(t) /\ fcall[t].method \in
                          {"set_source", "set_standby_time", "set_orientation"}) =>
            \A f \in StateFields \ DOMAIN fcall[t].kwargs :
              SpeakerState_from_raw(device'[SOURCE])[f]
                = SpeakerState_from_raw(device[SOURCE])[f]]_vars

\* a wrapped call has returned or raised: close() is over and the loop stands
\* still
SyncReturned == pc[Caller] = "idle" /\ op[Caller] = "disconnect" /\ Quiet

\* C26: when a call made through the blocking adapter returns or raises, the
\* session is Disconnected and no idle-timer task is left pending on the
\* adapter's loop (so that no timer armed in one call can fire in a later
\* one).
C26_BlockingCallLeavesNothing ==
  SyncReturned => (writer = 0 /\ LiveTimers = {})

\* C31: the three request constructors have no failure modes: for every
\* command byte, value byte and text, get, set_byte and set_string return a
\* request, also for a text whose UTF-8 length plus the NUL is 128 or more.
C31_ConstructorsNeverFail ==
  cpc = "encoded" => request.kind = "request"

\* The bytes that to_raw of a record produces: every byte for the two volume
\* records (the level is masked to seven bits), the bytes whose fields are
\* enum members for SpeakerState, and of those the ones with bit 7 set for
\* EqMode.
Produced(cls, b) ==
  CASE cls = "SpeakerState" -> b % 16 \in Source /\ (b \div 16) % 4 \in StandbyTime
    [] cls = "EqMode"       -> b >= 128 /\ (b \div 16) % 4 \in BassExtension
    [] OTHER                -> TRUE

\* C32: the reverse round trip: for every byte b that to_raw of a
\* SpeakerState, VolumeState, EqMode or VolumeLimitState produced,
\* to_raw(from_raw(b)) = b, and for every byte b that encode of a predefined
\* setting produced, encode(decode(b)) = b.
C32_ReverseRoundTrip ==
  [][/\ (cpc = "decoded" /\ cpc' = "again") => encoded' = encoded
     /\ (cpc = "read" /\ cpc' = "reread" /\ Produced(model.of, model.byte)) =>
          encoded' = model.byte]_vars

\* a muted VolumeState at the top of the range, and the top step of a
\* setting, were encoded again from what their bytes decoded to
C32_Witness ==
  \/ /\ cpc = "again" /\ model = VolumeState(MaxLevel, TRUE)
     /\ encoded = 128 + MaxLevel
  \/ /\ cpc = "reread" /\ model.of = "VolumeLimitState" /\ model.byte = 255
     /\ encoded = 255

\* C33: the bit layout of SpeakerState: to_raw(s) = source + 16*standby_time
\* + 64*orientation + 128*(0 if is_on else 1), so that bit 7 clear means
\* powered on, and from_raw reads exactly those fields from any byte;
\* EqMode.to_raw always sets bit 7 and EqMode.from_raw ignores bit 7.
C33_BitLayout ==
  /\ (cpc \in {"encoded", "decoded"} /\ model.cls = "SpeakerState") =>
       /\ encoded = model.source + 16 * model.standby_time + 64 * model.orientation
                      + 128 * (IF model.is_on THEN 0 ELSE 1)
       /\ encoded < 128 <=> model.is_on
  /\ (cpc \in {"encoded", "decoded"} /\ model.cls = "EqMode") => encoded \in 128..255
  /\ (cpc = "read" /\ model.cls = "byte" /\ model.of = "SpeakerState") =>
       LET b == model.byte
       IN  IF b % 16 \in Source /\ (b \div 16) % 4 \in StandbyTime
           THEN decoded = SpeakerState(b % 16, (b \div 16) % 4, (b \div 64) % 2, b < 128)
           ELSE decoded = EnumError
  /\ (cpc = "read" /\ model.cls = "byte" /\ model.of = "EqMode") =>
       LET c == model.byte % 128
       IN  IF (c \div 16) % 4 \in BassExtension
           THEN decoded = EqMode(c % 2 = 1, (c \div 2) % 2 = 1, (c \div 4) % 2 = 1,
                                 (c \div 8) % 2 = 1, (c \div 16) % 4,
                                 IF c >= 64 THEN "-" ELSE "+")
           ELSE decoded = EnumError

\* from_raw read a switched-off SpeakerState from the byte 0xEC, and an
\* EqMode of normal polarity from a byte with bit 7 set
C33_Witness ==
  /\ cpc = "read" /\ model.cls = "byte"
  /\ \/ model.byte = 236 /\ decoded = SpeakerState(12, 2, 1, FALSE)
     \/ model.byte = 133 /\ decoded = EqMode(TRUE, FALSE, TRUE, FALSE, 0, "+")

\* C34: reply attribution: the frame a send returns was produced by the
\* device in reply to that send's request; after an earlier send failed with
\* a response timeout, no later send on the Connection returns (or fails its
\* match on) the late reply to the earlier request.
C34_ReplyAttribution ==
  \A t \in Tasks : result[t] # "stale_frame"

\* C35: timer-handle consistency: in every reachable state the handle
\* _keepalive_task refers to the most recently armed timer whenever that
\* timer has neither fired nor been cancelled, and a timer task that is
\* cancelled or finishes never clears a handle that refers to another, newer
\* timer.
C35_HandleConsistent ==
  /\ [](nTimers > 0 /\ timers[nTimers] \in {"new", "sleeping"}
          => keepalive_task = nTimers)
  /\ [][\A k \in TimerIds :
          ( /\ TimerGranted(k) \/ TimerClosed(k) \/ TimerCancelled(k)
            /\ keepalive_task > k ) => keepalive_task' = keepalive_task]_vars

\* the lock is free, or held by an agent inside its locked section, or handed
\* to a waiter that has not run yet
LockAccounted ==
  \/ lockOwner = 0
  \/ lockOwner \in InSection
  \/ lockOwner \in Tasks /\ pc[lockOwner] \in {"c_wait", "s_wait", "d_wait"}
  \/ lockOwner < 0 /\ timers[0 - lockOwner] = "waiting"

\* C36: no deadlock: for every interleaving of connect, send, disconnect and
\* idle-timer firings, a timer cancelled while it waits for or holds the lock
\* included, the session lock is released on every exit path, and every
\* invoked operation eventually returns or fails, provided each socket open,
\* write and read step completes or times out (checked under FairSpec).
C36_NoDeadlock ==
  /\ []LockAccounted
  /\ \A t \in Tasks : (pc[t] # "idle") ~> (pc[t] = "idle")

\* a disconnect() waits for the lock while the timer that holds it, closing
\* the socket, has been cancelled
C36_Witness ==
  \E k \in TimerIds, t \in Tasks :
    /\ timers[k] = "cancelled_closing" /\ lockOwner = 0 - k
    /\ pc[t] = "d_wait"

====
